---- MODULE Spec2Model ----
(***************************************************************************)
(* A model of the reminder scheduler, the task store and the durable      *)
(* storage layer of todo-tool (src/todo-tool/src-tauri/src).              *)
(*                                                                         *)
(* Specifications:                                                         *)
(*   SpecDue     collect_due_tasks applied to one task whose reminder      *)
(*               fields, settings and `now` range over boundary values.    *)
(*   SpecSort    collect_due_tasks applied to task lists.                  *)
(*   SpecStore   store methods applied to drawn stores.                    *)
(*   Spec        the scheduler tick running against the commands of the    *)
(*               main thread on one store.                                 *)
(*   SpecStorage write_atomic calls of the tick and of the commands on     *)
(*               one directory.                                            *)
(***************************************************************************)
EXTENDS Integers, Sequences, FiniteSets, TLC

VARIABLES
    overflow_checks, \* build profile: TRUE = arithmetic overflow panics
    arg,             \* SpecDue/SpecSort/SpecStore: the arguments of the call
    ret,             \* SpecDue/SpecSort/SpecStore: <<>> or <<result>>
    tasks,           \* AppData.tasks
    settings,        \* AppData.settings
    lock,            \* AppState.inner: "free" or the thread holding the guard
    clock,           \* Utc::now().timestamp()
    tick,            \* the scheduler task: its position and locals
    cmd,             \* the main thread: the command it runs and its locals
    fired,           \* history: per task id, the last mark of a Forced task
    dir,             \* file system: path -> inode (0: no entry)
    files,           \* file system: inode -> content
    wr,              \* the write_atomic call of each thread
    projects,        \* AppData.projects
    data,            \* data.json as a whole: None or Some([doc, modified])
    backups,         \* backups/: file name -> [doc, modified, created]
    copy_keeps_mtime \* platform: TRUE = fs::copy keeps the source's mtime

disk == <<data, backups, copy_keeps_mtime>>

vars == <<overflow_checks, arg, ret, tasks, settings, lock, clock, tick, cmd,
          fired, dir, files, wr, projects, disk>>

(***************************************************************************)
(* Option<T>: None is <<>>, Some(v) is <<v>>.                              *)
(***************************************************************************)
None == <<>>
Some(v) == <<v>>
is_some(o) == o # <<>>
unwrap(o) == o[1]

Range(s) == {s[i] : i \in 1..Len(s)}

(***************************************************************************)
(* Timestamp = i64.  TLC's integers are 32 bits wide, so the model keeps   *)
(* the two's-complement range at 30 bits: every sum or difference of two   *)
(* values of the range is still a TLC integer, and overflow happens at     *)
(* I64_MIN and I64_MAX exactly as it does at i64::MIN and i64::MAX.        *)
(***************************************************************************)
I64_MAX == 2^29 - 1
I64_MIN == -(2^29)
I64_MODULUS == 2^30

overflows(x) == x < I64_MIN \/ x > I64_MAX

\* a - b as the release profile computes it (two's-complement wrap)
wrapping(x) ==
    IF x < I64_MIN THEN x + I64_MODULUS
    ELSE IF x > I64_MAX THEN x - I64_MODULUS
    ELSE x

saturating_add(a, b) ==
    IF a + b > I64_MAX THEN I64_MAX
    ELSE IF a + b < I64_MIN THEN I64_MIN
    ELSE a + b

max(a, b) == IF a >= b THEN a ELSE b

(***************************************************************************)
(* models.rs: ReminderConfig, Task (the fields the scheduler and the       *)
(* store methods read or write), Settings.                                 *)
(***************************************************************************)
ReminderKind == {"none", "normal", "forced"}

ReminderConfig(kind, remind_at, snoozed_until, forced_dismissed, last_fired_at, count) ==
    [kind |-> kind, remind_at |-> remind_at, snoozed_until |-> snoozed_until,
     forced_dismissed |-> forced_dismissed, last_fired_at |-> last_fired_at,
     repeat_fired_count |-> count]

\* models.rs:39-55  RepeatRule; days is a Vec<u8>, month and day are u8
RepeatNone == [type |-> "none", workday_only |-> FALSE, days |-> <<>>, month |-> 0, day |-> 0]
Daily(workday_only) == [RepeatNone EXCEPT !.type = "daily", !.workday_only = workday_only]
Weekly(days) == [RepeatNone EXCEPT !.type = "weekly", !.days = days]
Monthly(day) == [RepeatNone EXCEPT !.type = "monthly", !.day = day]
Yearly(month, day) == [RepeatNone EXCEPT !.type = "yearly", !.month = month, !.day = day]

\* a task without a repeat rule, never completed (completed_at) and with
\* zero created_at, updated_at and sort_order
Task(id, due_at, important, completed, reminder) ==
    [id |-> id, due_at |-> due_at, important |-> important,
     completed |-> completed, reminder |-> reminder,
     completed_at |-> None, created_at |-> 0, updated_at |-> 0, sort_order |-> 0,
     repeat |-> RepeatNone]

Settings(interval, max_times) ==
    [reminder_repeat_interval_sec |-> interval,
     reminder_repeat_max_times |-> max_times,
     backup_schedule |-> "daily", last_backup_at |-> None]

(***************************************************************************)
(* scheduler.rs: collect_due_tasks.                                        *)
(***************************************************************************)
\* the three `continue`s at the head of the loop body
skipped_keep_dismissed(task) ==
    \/ task.completed
    \/ task.reminder.kind = "none"
skipped(task) ==
    \/ task.completed
    \/ task.reminder.kind = "none"
    \/ task.reminder.kind = "forced" /\ task.reminder.forced_dismissed

\* `task.due_at - 10 * 60` overflows: a panic with overflow checks, a wrap without
default_target_overflows(task) ==
    task.reminder.kind = "normal" /\ overflows(task.due_at - 10 * 60)

default_target(task) ==
    IF task.reminder.kind = "normal"
    THEN wrapping(task.due_at - 10 * 60)
    ELSE task.due_at

\* as target_time with remind_at taken before snoozed_until
target_time_remind_first(task) ==
    IF is_some(task.reminder.remind_at) THEN unwrap(task.reminder.remind_at)
    ELSE IF is_some(task.reminder.snoozed_until) THEN unwrap(task.reminder.snoozed_until)
    ELSE default_target(task)
target_time(task) ==
    IF is_some(task.reminder.snoozed_until) THEN unwrap(task.reminder.snoozed_until)
    ELSE IF is_some(task.reminder.remind_at) THEN unwrap(task.reminder.remind_at)
    ELSE default_target(task)

\* settings.reminder_repeat_interval_sec.max(0)
repeat_interval(s) == max(s.reminder_repeat_interval_sec, 0)

effective_repeat_interval_any_kind(task, s) == repeat_interval(s)
effective_repeat_interval(task, s) ==
    IF task.reminder.kind = "normal" THEN repeat_interval(s) ELSE 0

\* as already_fired with `last_fired > target_time`
already_fired_later(task) ==
    /\ is_some(task.reminder.last_fired_at)
    /\ unwrap(task.reminder.last_fired_at) > target_time(task)
already_fired(task) ==
    /\ is_some(task.reminder.last_fired_at)
    /\ unwrap(task.reminder.last_fired_at) >= target_time(task)

repeat_limit_reached_off_by_one(task, s) ==
    /\ s.reminder_repeat_max_times > 0
    /\ max(task.reminder.repeat_fired_count, 0) > s.reminder_repeat_max_times
repeat_limit_reached(task, s) ==
    /\ s.reminder_repeat_max_times > 0
    /\ max(task.reminder.repeat_fired_count, 0) >= s.reminder_repeat_max_times

\* as next_target without the snooze branch
next_target_cadence(task, s) ==
    IF is_some(task.reminder.last_fired_at)
    THEN saturating_add(unwrap(task.reminder.last_fired_at), effective_repeat_interval(task, s))
    ELSE target_time(task)
next_target(task, s) ==
    LET r == task.reminder
        last_fired_at == IF is_some(r.last_fired_at) THEN unwrap(r.last_fired_at)
                         ELSE I64_MIN
        interval == effective_repeat_interval(task, s)
    IN  IF is_some(r.snoozed_until)
        THEN IF unwrap(r.snoozed_until) > last_fired_at
             THEN unwrap(r.snoozed_until)
             ELSE IF is_some(r.last_fired_at)
                  THEN saturating_add(unwrap(r.last_fired_at), interval)
                  ELSE target_time(task)
        ELSE IF is_some(r.last_fired_at)
             THEN saturating_add(unwrap(r.last_fired_at), interval)
             ELSE target_time(task)

\* the loop body's decision for one task that was not skipped
pushes(task, s, now) ==
    IF effective_repeat_interval(task, s) <= 0
    THEN ~already_fired(task) /\ now >= target_time(task)
    ELSE ~repeat_limit_reached(task, s) /\ now >= next_target(task, s)

is_due(task, s, now) == ~skipped(task) /\ pushes(task, s, now)

\* the loop body panics: overflow checks are on and default_target overflows
body_panics(task) ==
    overflow_checks /\ ~skipped(task) /\ default_target_overflows(task)

\* due.sort_by_key(|task| (!task.important, task.due_at)): a stable sort
sort_key_no_negation(task) == <<IF task.important THEN 1 ELSE 0, task.due_at>>
sort_key(task) == <<IF task.important THEN 0 ELSE 1, task.due_at>>

key_le(a, b) ==
    \/ sort_key(a)[1] < sort_key(b)[1]
    \/ sort_key(a)[1] = sort_key(b)[1] /\ sort_key(a)[2] <= sort_key(b)[2]

RECURSIVE insert_sorted(_, _)
insert_sorted(s, t) ==
    IF s = <<>> THEN <<t>>
    ELSE IF key_le(s[Len(s)], t) THEN Append(s, t)
    ELSE Append(insert_sorted(SubSeq(s, 1, Len(s) - 1), t), s[Len(s)])

RECURSIVE sort_by_key(_)
sort_by_key(s) ==
    IF s = <<>> THEN <<>>
    ELSE insert_sorted(sort_by_key(SubSeq(s, 1, Len(s) - 1)), s[Len(s)])

\* the whole function on a task list, settings and now
collect_due_tasks(ts, s, now) ==
    IF \E i \in 1..Len(ts) : body_panics(ts[i])
    THEN [panicked |-> TRUE, due |-> <<>>]
    ELSE [panicked |-> FALSE,
          due |-> sort_by_key(SelectSeq(ts, LAMBDA t : is_due(t, s, now)))]

(***************************************************************************)
(* state.rs: AppState.  Every method takes the guard of AppState.inner on  *)
(* entry (lock_inner) and drops it when it returns.                        *)
(***************************************************************************)
\* the lock once a method of thread `thread` has returned
guard_leaked(thread) == thread
guard_dropped(thread) == "free"

\* guard.tasks.iter_mut().find(|t| t.id == id): the first index, 0 when none
find_task(ts, id) ==
    IF \E i \in 1..Len(ts) : ts[i].id = id
    THEN CHOOSE i \in 1..Len(ts) :
             ts[i].id = id /\ \A j \in 1..(i - 1) : ts[j].id # id
    ELSE 0

\* `if snoozed_until <= at` of mark_reminder_fired
snooze_consumed_strict(snoozed_until, at) == snoozed_until < at
snooze_consumed(snoozed_until, at) == snoozed_until <= at

mark_reminder_fired(ts, id, at) ==
    LET i == find_task(ts, id)
    IN  IF i = 0 THEN ts
        ELSE [ts EXCEPT
                ![i].reminder.last_fired_at = Some(at),
                ![i].reminder.repeat_fired_count = saturating_add(max(@, 0), 1),
                ![i].reminder.snoozed_until =
                    IF is_some(@) /\ snooze_consumed(unwrap(@), at) THEN None ELSE @]

\* the guard of tasks_file() once it has returned its clone
guard_after_tasks_file_held(thread) == thread
guard_after_tasks_file(thread) == "free"

update_task(ts, task) ==
    LET i == find_task(ts, task.id)
    IN  IF i = 0 THEN ts ELSE [ts EXCEPT ![i] = task]

complete_task_keeps_snooze(ts, id, now) ==
    LET i == find_task(ts, id)
    IN  IF i = 0 THEN ts
        ELSE [ts EXCEPT ![i].completed = TRUE,
                        ![i].completed_at = Some(now),
                        ![i].updated_at = now,
                        ![i].reminder.last_fired_at = Some(now)]
complete_task(ts, id, now) ==
    LET i == find_task(ts, id)
    IN  IF i = 0 THEN ts
        ELSE [ts EXCEPT ![i].completed = TRUE,
                        ![i].completed_at = Some(now),
                        ![i].updated_at = now,
                        ![i].reminder.snoozed_until = None,
                        ![i].reminder.last_fired_at = Some(now)]

remove_task(ts, id) == SelectSeq(ts, LAMBDA t : t.id # id)

(***************************************************************************)
(* commands.rs: should_auto_backup.  Local is taken to be UTC.             *)
(***************************************************************************)
date_naive(ts) == ts \div (24 * 60 * 60)

\* chrono: the timestamps a DateTime can hold, on the scale of the 30-bit i64
MAX_DATETIME_TS == 2^28

\* commands.rs:141-143  Local.timestamp_opt(ts, 0).single(): the day of `ts`,
\* None for a timestamp no DateTime can hold
timestamp_opt(ts) ==
    IF ts > MAX_DATETIME_TS \/ ts < 0 - MAX_DATETIME_TS THEN None ELSE Some(date_naive(ts))

is_leap_year(year) == (year % 4 = 0 /\ year % 100 # 0) \/ year % 400 = 0

\* chrono NaiveDate: year, month, day of the year and the day number of
\* January 1st, for a number of days since 1970-01-01
NaiveDate(days) ==
    LET len(y) == IF is_leap_year(y) THEN 366 ELSE 365
        RECURSIVE of_year(_, _, _)
        of_year(y, jan1, d) ==
            IF d < jan1 THEN of_year(y - 1, jan1 - len(y - 1), d)
            ELSE IF d >= jan1 + len(y) THEN of_year(y + 1, jan1 + len(y), d)
            ELSE [year |-> y, jan1 |-> jan1, ordinal |-> d - jan1 + 1]
        date == of_year(1970, 0, days)
        months == <<31, IF is_leap_year(date.year) THEN 29 ELSE 28, 31, 30, 31, 30, 31, 31, 30, 31, 30, 31>>
        RECURSIVE month_of(_, _)
        month_of(m, o) == IF o <= months[m] THEN m ELSE month_of(m + 1, o - months[m])
    IN  [year |-> date.year, month |-> month_of(1, date.ordinal), ordinal |-> date.ordinal,
         jan1 |-> date.jan1]

\* chrono Datelike::iso_week: the ISO year and week number of a day; the
\* week starts on Monday and week 1 holds the year's first Thursday
iso_week(days) ==
    LET weekday(d) == ((d + 3) % 7) + 1
        weeks(y, jan1) ==
            IF weekday(jan1) = 4 \/ (is_leap_year(y) /\ weekday(jan1) = 3) THEN 53 ELSE 52
        date == NaiveDate(days)
        prev == NaiveDate(date.jan1 - 1)
        week == (date.ordinal - weekday(days) + 10) \div 7
    IN  IF week < 1 THEN <<prev.year, weeks(prev.year, prev.jan1)>>
        ELSE IF week > weeks(date.year, date.jan1) THEN <<date.year + 1, 1>>
        ELSE <<date.year, week>>

year_month(days) == <<NaiveDate(days).year, NaiveDate(days).month>>

is_new_day(last, now) ==
    IF last = None THEN TRUE
    ELSE timestamp_opt(unwrap(last)) # timestamp_opt(now)

is_new_week(last, now) ==
    LET week(dt) == IF dt = None THEN None ELSE Some(iso_week(unwrap(dt)))
    IN  IF last = None THEN TRUE
        ELSE week(timestamp_opt(unwrap(last))) # week(timestamp_opt(now))

is_new_month(last, now) ==
    LET month(dt) == IF dt = None THEN None ELSE Some(year_month(unwrap(dt)))
    IN  IF last = None THEN TRUE
        ELSE month(timestamp_opt(unwrap(last))) # month(timestamp_opt(now))

should_auto_backup_daily_only(s, now) ==
    IF s.backup_schedule = "none" THEN FALSE ELSE is_new_day(s.last_backup_at, now)
should_auto_backup(s, now) ==
    CASE s.backup_schedule = "none" -> FALSE
      [] s.backup_schedule = "daily" -> is_new_day(s.last_backup_at, now)
      [] s.backup_schedule = "weekly" -> is_new_week(s.last_backup_at, now)
      [] s.backup_schedule = "monthly" -> is_new_month(s.last_backup_at, now)

(***************************************************************************)
(* The values of the variables a specification does not use.              *)
(***************************************************************************)
NoCall == [op |-> "none"]
TickIdle ==
    [pc |-> "idle", no |-> 0, now |-> 0, settings |-> Settings(0, 0),
     tasks |-> <<>>, idx |-> 0, due |-> <<>>]
CmdIdle ==
    [pc |-> "idle", op |-> "none", n |-> 0, task |-> None, settings |-> None,
     should_backup |-> FALSE]

NoStore == tasks = <<>> /\ settings = Settings(0, 0) /\ lock = "free"
NoThreads == clock = 0 /\ tick = TickIdle /\ cmd = CmdIdle /\ fired = <<>>
NoBackups == data = <<>> /\ backups = <<>> /\ copy_keeps_mtime = FALSE
NoFiles == dir = <<>> /\ files = <<>> /\ wr = <<>> /\ projects = <<>> /\ NoBackups

(***************************************************************************)
(* SpecDue: collect_due_tasks on one task.  The values are the boundary    *)
(* cases of the comparisons: a target before, at and after `now`, a        *)
(* last_fired_at before and after the target and within one interval of    *)
(* i64::MAX, a due_at within 600 of i64::MIN, a snoozed_until of i64::MIN. *)
(***************************************************************************)
DueAts == {I64_MIN, I64_MIN + 600, 2000}
RemindAts == {None, Some(1000)}
SnoozedUntils == {None, Some(I64_MIN), Some(1200)}
LastFiredAts == {None, Some(700), Some(1200), Some(I64_MAX - 100)}
FiredCounts == {-1, 0, 2}
Intervals == {-5, 0, 300}
MaxTimes == {-1, 0, 2}
Nows == {0, 1000, 1400, I64_MAX}

DueReminders ==
    {ReminderConfig(k, ra, su, fd, lf, c) :
        k \in ReminderKind, ra \in RemindAts, su \in SnoozedUntils,
        fd \in BOOLEAN, lf \in LastFiredAts, c \in FiredCounts}

DueTasks ==
    {Task(1, d, FALSE, c, r) : d \in DueAts, c \in BOOLEAN, r \in DueReminders}

DueSettings == {Settings(i, m) : i \in Intervals, m \in MaxTimes}

InitDue ==
    /\ overflow_checks \in BOOLEAN
    /\ arg \in {[op |-> "collect_due_tasks", tasks |-> <<t>>, settings |-> s, now |-> n] :
                    t \in DueTasks, s \in DueSettings, n \in Nows}
    /\ ret = None
    /\ NoStore /\ NoThreads /\ NoFiles

\* the call returns (or panics)
Collect ==
    /\ arg.op = "collect_due_tasks"
    /\ ret = None
    /\ ret' = Some(collect_due_tasks(arg.tasks, arg.settings, arg.now))
    /\ UNCHANGED <<overflow_checks, arg, tasks, settings, lock, clock, tick, cmd,
                   fired, dir, files, wr, projects, disk>>

NextDue == Collect

SpecDue == InitDue /\ [][NextDue]_vars

returned(t) == ret # None /\ ~unwrap(ret).panicked /\ t \in Range(unwrap(ret).due)

(***************************************************************************)
(* The terms of the claims about collect_due_tasks, as the specification   *)
(* words them (over the integers, not over i64).                           *)
(***************************************************************************)
claimed_target_time(t) ==
    IF is_some(t.reminder.snoozed_until) THEN unwrap(t.reminder.snoozed_until)
    ELSE IF is_some(t.reminder.remind_at) THEN unwrap(t.reminder.remind_at)
    ELSE IF t.reminder.kind = "normal" THEN t.due_at - 600
    ELSE t.due_at

claimed_next_target(t, s) ==
    LET r == t.reminder
    IN  IF /\ is_some(r.snoozed_until)
           /\ (is_some(r.last_fired_at) => unwrap(r.snoozed_until) > unwrap(r.last_fired_at))
        THEN unwrap(r.snoozed_until)
        ELSE IF is_some(r.last_fired_at)
             THEN (IF unwrap(r.last_fired_at) + s.reminder_repeat_interval_sec > I64_MAX
                   THEN I64_MAX
                   ELSE unwrap(r.last_fired_at) + s.reminder_repeat_interval_sec)
             ELSE claimed_target_time(t)

candidate(t) ==
    /\ ~t.completed
    /\ t.reminder.kind # "none"
    /\ ~(t.reminder.kind = "forced" /\ t.reminder.forced_dismissed)

single_shot(t, s) ==
    t.reminder.kind = "forced" \/ s.reminder_repeat_interval_sec <= 0

repeating(t, s) ==
    /\ t.reminder.kind = "normal"
    /\ s.reminder_repeat_interval_sec > 0
    /\ ~(/\ s.reminder_repeat_max_times > 0
          /\ t.reminder.repeat_fired_count >= s.reminder_repeat_max_times)

\* C2: with an effective repeat interval of 0, a task that is not completed,
\* not kind None and not a dismissed Forced task is returned if and only if
\* now >= target_time and not (last_fired_at is set and >= target_time), where
\* target_time is snoozed_until, else remind_at, else due_at - 600 (Normal) or
\* due_at (Forced).
C2_SingleShotDueIff ==
    ret # None =>
        \A i \in 1..Len(arg.tasks) :
            LET t == arg.tasks[i]
                target == claimed_target_time(t)
            IN  candidate(t) /\ single_shot(t, arg.settings) =>
                    (returned(t) <=>
                        /\ arg.now >= target
                        /\ ~(/\ is_some(t.reminder.last_fired_at)
                              /\ unwrap(t.reminder.last_fired_at) >= target))

\* C3: in the repeating path (Normal, interval I > 0, fire count below the
\* limit) a task is returned if and only if now >= next_target, where
\* next_target is snoozed_until when that is set and greater than last_fired_at
\* (absent counting as smaller than every value), else last_fired_at + I
\* saturating at the maximum, else target_time.
C3_RepeatingDueIff ==
    ret # None =>
        \A i \in 1..Len(arg.tasks) :
            LET t == arg.tasks[i]
            IN  candidate(t) /\ repeating(t, arg.settings) =>
                    (returned(t) <=> arg.now >= claimed_next_target(t, arg.settings))

\* C4: with interval > 0 and max_times = M > 0, a Normal task whose
\* repeat_fired_count >= M is never returned, whatever now, due_at, remind_at,
\* snoozed_until and last_fired_at are.
C4_LimitExcludes ==
    ret # None =>
        \A i \in 1..Len(arg.tasks) :
            LET t == arg.tasks[i]
            IN  /\ t.reminder.kind = "normal"
                /\ arg.settings.reminder_repeat_interval_sec > 0
                /\ arg.settings.reminder_repeat_max_times > 0
                /\ t.reminder.repeat_fired_count >= arg.settings.reminder_repeat_max_times
                => ~returned(t)

\* C4 witness: the call returned for a task at its limit that is otherwise a
\* candidate whose next target has passed.
C4_Witness ==
    /\ ret # None
    /\ ~unwrap(ret).panicked
    /\ \E i \in 1..Len(arg.tasks) :
            LET t == arg.tasks[i]
            IN  /\ candidate(t)
                /\ t.reminder.kind = "normal"
                /\ arg.settings.reminder_repeat_interval_sec > 0
                /\ arg.settings.reminder_repeat_max_times > 0
                /\ t.reminder.repeat_fired_count = arg.settings.reminder_repeat_max_times
                /\ t.reminder.snoozed_until = None
                /\ is_some(t.reminder.last_fired_at)
                /\ arg.now >= unwrap(t.reminder.last_fired_at)
                                + arg.settings.reminder_repeat_interval_sec
                /\ ~returned(t)

(***************************************************************************)
(* SpecSort: collect_due_tasks on task lists of up to MaxLen tasks, mixing *)
(* completed, kind None, dismissed and due tasks of both importances.      *)
(* No timestamp here is near i64::MIN, so the build profile is immaterial. *)
(***************************************************************************)
MaxLen == 2

SortTasks ==
    {Task(0, d, imp, c, ReminderConfig(k, None, None, fd, None, 0)) :
        d \in {1000, 2000}, imp \in BOOLEAN, c \in BOOLEAN,
        k \in ReminderKind, fd \in BOOLEAN}

\* the list with its tasks numbered by position
with_ids(s) == [i \in 1..Len(s) |-> [s[i] EXCEPT !.id = i]]

SortLists == UNION {[1..n -> SortTasks] : n \in 0..MaxLen}

InitSort ==
    /\ overflow_checks = FALSE
    /\ arg \in {[op |-> "collect_due_tasks", tasks |-> with_ids(l),
                  settings |-> Settings(0, 0), now |-> n] :
                    l \in SortLists, n \in {1500, 3000}}
    /\ ret = None
    /\ NoStore /\ NoThreads /\ NoFiles

NextSort == Collect

SpecSort == InitSort /\ [][NextSort]_vars

\* C1: collect_due_tasks returns no completed task, no task of kind None and
\* no Forced task whose forced_dismissed flag is set.
C1_NeverReturnsSkipped ==
    ret # None =>
        \A i \in 1..Len(unwrap(ret).due) :
            LET t == unwrap(ret).due[i]
            IN  /\ ~t.completed
                /\ t.reminder.kind # "none"
                /\ ~(t.reminder.kind = "forced" /\ t.reminder.forced_dismissed)

\* C1 witness: a call that returned some task and left out a dismissed Forced
\* task whose due time has passed.
C1_Witness ==
    /\ ret # None
    /\ unwrap(ret).due # <<>>
    /\ \E i \in 1..Len(arg.tasks) :
            LET t == arg.tasks[i]
            IN  /\ ~t.completed
                /\ t.reminder.kind = "forced"
                /\ t.reminder.forced_dismissed
                /\ arg.now >= t.due_at
                /\ ~returned(t)

\* C6: the returned list has every important task before every non-important
\* one and, within each group, ascending due_at.
C6_Ordered ==
    ret # None =>
        LET due == unwrap(ret).due
        IN  \A i, j \in 1..Len(due) :
                i < j =>
                    /\ due[j].important => due[i].important
                    /\ due[i].important = due[j].important => due[i].due_at <= due[j].due_at

\* C6 witness: two due tasks stored as <<non-important, important>> with the
\* important one due later come back in the opposite order.
C6_Witness ==
    /\ ret # None
    /\ Len(arg.tasks) >= 2
    /\ ~arg.tasks[1].important /\ arg.tasks[2].important
    /\ arg.tasks[1].due_at < arg.tasks[2].due_at
    /\ Len(unwrap(ret).due) = 2
    /\ unwrap(ret).due[1] = arg.tasks[2]
    /\ unwrap(ret).due[2] = arg.tasks[1]

(***************************************************************************)
(* SpecStore: one store method applied to a drawn store of up to MaxLen    *)
(* tasks.  Ids may repeat (add_task does not check them), so that `find`   *)
(* taking the first match shows.                                           *)
(***************************************************************************)
StoreTasks ==
    {Task(id, 2000, FALSE, FALSE, ReminderConfig("normal", None, su, FALSE, lf, c)) :
        id \in {1, 2}, su \in {None, Some(100), Some(200)},
        lf \in {None, Some(50)}, c \in {-3, 0, I64_MAX}}

Stores == UNION {[1..n -> StoreTasks] : n \in 0..MaxLen}

InitStore ==
    /\ overflow_checks = FALSE
    /\ tasks \in Stores
    /\ settings = Settings(0, 0)
    /\ lock = "free"
    /\ arg \in {[op |-> "mark_reminder_fired", id |-> id, at |-> at] :
                    id \in {1, 2, 3}, at \in {100, 150}}
    /\ ret = None
    /\ NoThreads /\ NoFiles

\* state.mark_reminder_fired(task, at); `ret` keeps the store from before the call
MarkReminderFired ==
    /\ arg.op = "mark_reminder_fired"
    /\ ret = None
    /\ lock = "free"
    /\ tasks' = mark_reminder_fired(tasks, arg.id, arg.at)
    /\ lock' = guard_dropped("cmd")
    /\ ret' = Some([before |-> tasks])
    /\ UNCHANGED <<overflow_checks, arg, settings, clock, tick, cmd, fired, dir,
                   files, wr, projects, disk>>

NextStore == MarkReminderFired

SpecStore == InitStore /\ [][NextStore]_vars

\* C7: mark_reminder_fired(task, at) on an id of the store sets last_fired_at
\* = at, repeat_fired_count = max(old, 0) + 1 (saturating) and clears
\* snoozed_until exactly when snoozed_until <= at; no other field and no other
\* task changes; with an id not in the store nothing changes.
C7_MarkFrame ==
    ret # None /\ arg.op = "mark_reminder_fired" =>
        LET before == unwrap(ret).before
            hit == {i \in 1..Len(before) : before[i].id = arg.id}
        IN  /\ Len(tasks) = Len(before)
            /\ hit = {} => tasks = before
            /\ \A i \in 1..Len(before) :
                    LET b == before[i]
                        a == tasks[i]
                    IN  IF i \in hit /\ \A j \in hit : i <= j
                        THEN /\ a.id = b.id /\ a.due_at = b.due_at
                             /\ a.important = b.important /\ a.completed = b.completed
                             /\ a.reminder.kind = b.reminder.kind
                             /\ a.reminder.remind_at = b.reminder.remind_at
                             /\ a.reminder.forced_dismissed = b.reminder.forced_dismissed
                             /\ a.reminder.last_fired_at = Some(arg.at)
                             /\ a.reminder.repeat_fired_count =
                                    (IF b.reminder.repeat_fired_count < 0 THEN 1
                                     ELSE IF b.reminder.repeat_fired_count = I64_MAX THEN I64_MAX
                                     ELSE b.reminder.repeat_fired_count + 1)
                             /\ a.reminder.snoozed_until =
                                    (IF /\ is_some(b.reminder.snoozed_until)
                                        /\ unwrap(b.reminder.snoozed_until) <= arg.at
                                     THEN None
                                     ELSE b.reminder.snoozed_until)
                        ELSE a = b

\* C7 witness: the call ran on a stored task whose snooze ended exactly at
\* `at` and cleared it, beside a second task that kept its later snooze.
C7_Witness ==
    /\ ret # None /\ arg.op = "mark_reminder_fired"
    /\ Len(tasks) = 2
    /\ unwrap(ret).before[1].id = arg.id
    /\ unwrap(ret).before[1].reminder.snoozed_until = Some(arg.at)
    /\ tasks[1].reminder.snoozed_until = None
    /\ tasks[1].reminder.last_fired_at = Some(arg.at)
    /\ tasks[2].reminder.snoozed_until = Some(200)

(***************************************************************************)
(* Spec: the scheduler task (scheduler.rs, start_scheduler) against the    *)
(* commands of the main thread (commands.rs) on one store.  Every call of  *)
(* an AppState method is one step taken with the lock free; what a thread  *)
(* does between two calls (the loop of collect_due_tasks over its clone,   *)
(* the file operations of Storage) are steps of their own.  Tasks do not   *)
(* repeat (RepeatRule::None).                                              *)
(***************************************************************************)
MaxClock == 2
MaxTicks == 2
MaxCmds == 1

TaskIds == {1, 2}
Untils == {1, 2}
EditDueAts == {2}

\* a Forced task snoozed to before its due time (the fixture
\* due_forced_by_snooze of the scheduler's tests) and an important Normal
\* task whose default target (due_at - 600) is 1
SpecTasks ==
    << Task(1, 1, FALSE, FALSE, ReminderConfig("forced", None, Some(0), FALSE, None, 0)),
       Task(2, 601, TRUE, FALSE, ReminderConfig("normal", None, None, FALSE, None, 0)) >>

Init ==
    /\ overflow_checks = FALSE
    /\ arg = NoCall /\ ret = None
    /\ tasks = SpecTasks
    /\ settings \in {Settings(i, 0) : i \in {0, 1}}
    /\ lock = "free"
    /\ clock = 0
    /\ tick = TickIdle
    /\ cmd = CmdIdle
    /\ fired = [id \in TaskIds |-> None]
    /\ NoFiles

\* a command wrote the task `id`: what the history says of it is void
modified(id) == [fired EXCEPT ![id] = None]

Advance ==
    /\ clock < MaxClock
    /\ clock' = clock + 1
    /\ UNCHANGED <<overflow_checks, arg, ret, tasks, settings, lock, tick, cmd,
                   fired, dir, files, wr, projects, disk>>

----
\* the scheduler task back at interval.tick().await, the locals of the turn gone
tick_done == [TickIdle EXCEPT !.no = tick.no]

\* scheduler.rs:30-32  interval.tick().await; let now = Utc::now().timestamp()
TickStart ==
    /\ tick.pc = "idle"
    /\ tick.no < MaxTicks
    /\ tick' = [TickIdle EXCEPT !.pc = "settings", !.no = tick.no + 1, !.now = clock]
    /\ UNCHANGED <<overflow_checks, arg, ret, tasks, settings, lock, clock, cmd,
                   fired, dir, files, wr, projects, disk>>

\* scheduler.rs:105  let settings = state.settings()
TickSettings ==
    /\ tick.pc = "settings"
    /\ lock = "free"
    /\ tick' = [tick EXCEPT !.pc = "tasks", !.settings = settings]
    /\ lock' = guard_dropped("tick")
    /\ UNCHANGED <<overflow_checks, arg, ret, tasks, settings, clock, cmd, fired,
                   dir, files, wr, projects, disk>>

\* scheduler.rs:108  let tasks = state.tasks()
TickTasks ==
    /\ tick.pc = "tasks"
    /\ lock = "free"
    /\ tick' = [tick EXCEPT !.pc = "loop", !.tasks = tasks, !.idx = 1]
    /\ lock' = guard_dropped("tick")
    /\ UNCHANGED <<overflow_checks, arg, ret, tasks, settings, clock, cmd, fired,
                   dir, files, wr, projects, disk>>

\* the task the i-th turn of `for task in tasks` looks at
loop_task_live(i) == IF i <= Len(tasks) THEN tasks[i] ELSE tick.tasks[i]
loop_task(i) == tick.tasks[i]

\* scheduler.rs:109-177  one turn of the loop, and the sort after the last
TickLoop ==
    /\ tick.pc = "loop"
    /\ tick' =
         IF tick.idx <= Len(tick.tasks)
         THEN IF body_panics(loop_task(tick.idx))
              THEN [tick EXCEPT !.pc = "panicked"]
              ELSE [tick EXCEPT
                      !.idx = tick.idx + 1,
                      !.due = IF is_due(loop_task(tick.idx), tick.settings, tick.now)
                              THEN Append(tick.due, loop_task(tick.idx))
                              ELSE tick.due]
         ELSE IF tick.due = <<>>
              THEN tick_done
              ELSE [tick EXCEPT !.pc = "mark", !.idx = 1, !.due = sort_by_key(tick.due)]
    /\ UNCHANGED <<overflow_checks, arg, ret, tasks, settings, lock, clock, cmd,
                   fired, dir, files, wr, projects, disk>>

\* scheduler.rs:45-47  state.mark_reminder_fired(task, now) for one due task
TickMark ==
    /\ tick.pc = "mark"
    /\ lock = "free"
    /\ LET task == tick.due[tick.idx]
       IN  /\ tasks' = mark_reminder_fired(tasks, task.id, tick.now)
           /\ fired' = IF task.reminder.kind = "forced"
                       THEN [fired EXCEPT ![task.id] = Some([no |-> tick.no, at |-> tick.now])]
                       ELSE fired
    /\ lock' = guard_dropped("tick")
    /\ tick' = IF tick.idx < Len(tick.due)
               THEN [tick EXCEPT !.idx = tick.idx + 1]
               ELSE [tick EXCEPT !.pc = "ensure_dirs", !.idx = 0]
    /\ UNCHANGED <<overflow_checks, arg, ret, settings, clock, cmd, dir, files, wr, projects, disk>>

\* scheduler.rs:69-72  storage.ensure_dirs(), which may fail
TickEnsureDirs ==
    /\ tick.pc = "ensure_dirs"
    /\ \E ok \in BOOLEAN :
         tick' = IF ok THEN [tick EXCEPT !.pc = "tasks_file"] ELSE tick_done
    /\ UNCHANGED <<overflow_checks, arg, ret, tasks, settings, lock, clock, cmd,
                   fired, dir, files, wr, projects, disk>>

\* scheduler.rs:73  state.tasks_file()
TickTasksFile ==
    /\ tick.pc = "tasks_file"
    /\ lock = "free"
    /\ tick' = [tick EXCEPT !.pc = "save_tasks"]
    /\ lock' = guard_after_tasks_file("tick")
    /\ UNCHANGED <<overflow_checks, arg, ret, tasks, settings, clock, cmd, fired,
                   dir, files, wr, projects, disk>>

\* scheduler.rs:73-76  storage.save_tasks(.., false), which may fail
TickSaveTasks ==
    /\ tick.pc = "save_tasks"
    /\ \E ok \in BOOLEAN :
         tick' = IF ok THEN [tick EXCEPT !.pc = "payload"] ELSE tick_done
    /\ UNCHANGED <<overflow_checks, arg, ret, tasks, settings, lock, clock, cmd,
                   fired, dir, files, wr, projects, disk>>

\* scheduler.rs:77-81  state.tasks(), state.projects(), state.settings(): the
\* payload of the event; idx counts the three calls
TickPayload ==
    /\ tick.pc = "payload"
    /\ lock = "free"
    /\ tick' = IF tick.idx < 2
               THEN [tick EXCEPT !.idx = tick.idx + 1]
               ELSE tick_done
    /\ lock' = guard_dropped("tick")
    /\ UNCHANGED <<overflow_checks, arg, ret, tasks, settings, clock, cmd, fired,
                   dir, files, wr, projects, disk>>

----
\* a command returns: the main thread takes the next one
cmd_done == [CmdIdle EXCEPT !.n = cmd.n + 1]
cmd_at(pc) == [cmd EXCEPT !.pc = pc]

\* commands.rs:827-828  snooze_task: let mut tasks = state.tasks(); find
CmdSnoozeTask(id, until) ==
    /\ cmd.pc = "idle" /\ cmd.n < MaxCmds
    /\ lock = "free"
    /\ LET i == find_task(tasks, id)
       IN  cmd' = IF i = 0
                  THEN [cmd EXCEPT !.pc = "ensure_dirs", !.op = "snooze_task"]
                  ELSE [cmd EXCEPT
                          !.pc = "update_task", !.op = "snooze_task",
                          !.task = Some([tasks[i] EXCEPT !.reminder.snoozed_until = Some(until)])]
    /\ lock' = guard_dropped("cmd")
    /\ UNCHANGED <<overflow_checks, arg, ret, tasks, settings, clock, tick, fired,
                   dir, files, wr, projects, disk>>

\* commands.rs:855-856  dismiss_forced: let mut tasks = state.tasks(); find
CmdDismissForced(id) ==
    /\ cmd.pc = "idle" /\ cmd.n < MaxCmds
    /\ lock = "free"
    /\ LET i == find_task(tasks, id)
       IN  cmd' = IF i = 0
                  THEN [cmd EXCEPT !.pc = "ensure_dirs", !.op = "dismiss_forced"]
                  ELSE [cmd EXCEPT
                          !.pc = "update_task", !.op = "dismiss_forced",
                          !.task = Some([tasks[i] EXCEPT !.reminder.forced_dismissed = TRUE])]
    /\ lock' = guard_dropped("cmd")
    /\ UNCHANGED <<overflow_checks, arg, ret, tasks, settings, clock, tick, fired,
                   dir, files, wr, projects, disk>>

\* commands.rs:831-832, 859-860  last_fired_at = Some(Utc::now().timestamp());
\* state.update_task(task.clone())
CmdStampAndUpdate ==
    /\ cmd.pc = "update_task" /\ cmd.op \in {"snooze_task", "dismiss_forced"}
    /\ lock = "free"
    /\ LET task == [unwrap(cmd.task) EXCEPT !.reminder.last_fired_at = Some(clock)]
       IN  /\ tasks' = update_task(tasks, task)
           /\ fired' = modified(task.id)
    /\ lock' = guard_dropped("cmd")
    /\ cmd' = [cmd EXCEPT !.pc = "ensure_dirs", !.task = None]
    /\ UNCHANGED <<overflow_checks, arg, ret, settings, clock, tick, dir, files, wr, projects, disk>>

\* commands.rs:503-510  update_task: the task the front end sends is the
\* stored one with a new due_at; state.projects()
CmdUpdateTask(id, due_at) ==
    /\ cmd.pc = "idle" /\ cmd.n < MaxCmds
    /\ lock = "free"
    /\ find_task(tasks, id) # 0
    /\ cmd' = [cmd EXCEPT
                 !.pc = "update_task", !.op = "update_task",
                 !.task = Some([tasks[find_task(tasks, id)] EXCEPT !.due_at = due_at])]
    /\ lock' = guard_dropped("cmd")
    /\ UNCHANGED <<overflow_checks, arg, ret, tasks, settings, clock, tick, fired,
                   dir, files, wr, projects, disk>>

\* commands.rs:531  state.update_task(task.clone())
CmdUpdateTaskWrite ==
    /\ cmd.pc = "update_task" /\ cmd.op = "update_task"
    /\ lock = "free"
    /\ tasks' = update_task(tasks, unwrap(cmd.task))
    /\ fired' = modified(unwrap(cmd.task).id)
    /\ lock' = guard_dropped("cmd")
    /\ cmd' = [cmd EXCEPT !.pc = "ensure_dirs", !.task = None]
    /\ UNCHANGED <<overflow_checks, arg, ret, settings, clock, tick, dir, files, wr, projects, disk>>

\* commands.rs:634-640  complete_task: state.complete_task(&task_id), the
\* command returning an error when the id is unknown
CmdCompleteTask(id) ==
    /\ cmd.pc = "idle" /\ cmd.n < MaxCmds
    /\ lock = "free"
    /\ tasks' = complete_task(tasks, id, clock)
    /\ fired' = modified(id)
    /\ lock' = guard_dropped("cmd")
    /\ cmd' = IF find_task(tasks, id) = 0 THEN cmd_done
              ELSE [cmd EXCEPT !.pc = "ensure_dirs", !.op = "complete_task"]
    /\ UNCHANGED <<overflow_checks, arg, ret, settings, clock, tick, dir, files, wr, projects, disk>>

\* commands.rs:881  delete_task: state.remove_task(&task_id)
CmdDeleteTask(id) ==
    /\ cmd.pc = "idle" /\ cmd.n < MaxCmds
    /\ lock = "free"
    /\ tasks' = remove_task(tasks, id)
    /\ fired' = modified(id)
    /\ lock' = guard_dropped("cmd")
    /\ cmd' = [cmd EXCEPT !.pc = "ensure_dirs", !.op = "delete_task"]
    /\ UNCHANGED <<overflow_checks, arg, ret, settings, clock, tick, dir, files, wr, projects, disk>>

----
\* commands.rs:69-75  persist: storage.ensure_dirs(), which may fail
CmdEnsureDirs ==
    /\ cmd.pc = "ensure_dirs"
    /\ \E ok \in BOOLEAN : cmd' = IF ok THEN cmd_at("settings") ELSE cmd_done
    /\ UNCHANGED <<overflow_checks, arg, ret, tasks, settings, lock, clock, tick,
                   fired, dir, files, wr, projects, disk>>

\* commands.rs:76-78  now; state.settings(); should_auto_backup; 85  the
\* clone gets last_backup_at = Some(now)
CmdPersistSettings ==
    /\ cmd.pc = "settings"
    /\ lock = "free"
    /\ cmd' = IF should_auto_backup(settings, clock)
              THEN [cmd EXCEPT
                      !.pc = "update_settings", !.should_backup = TRUE,
                      !.settings = Some([settings EXCEPT !.last_backup_at = Some(clock)])]
              ELSE [cmd EXCEPT !.pc = "tasks_file", !.should_backup = FALSE]
    /\ lock' = guard_dropped("cmd")
    /\ UNCHANGED <<overflow_checks, arg, ret, tasks, settings, clock, tick, fired,
                   dir, files, wr, projects, disk>>

\* commands.rs:86  state.update_settings(settings.clone())
CmdPersistUpdateSettings ==
    /\ cmd.pc = "update_settings"
    /\ lock = "free"
    /\ settings' = unwrap(cmd.settings)
    /\ cmd' = [cmd EXCEPT !.pc = "tasks_file", !.settings = None]
    /\ lock' = guard_dropped("cmd")
    /\ UNCHANGED <<overflow_checks, arg, ret, tasks, clock, tick, fired, dir,
                   files, wr, projects, disk>>

\* commands.rs:89  state.tasks_file()
CmdPersistTasksFile ==
    /\ cmd.pc = "tasks_file"
    /\ lock = "free"
    /\ cmd' = cmd_at("save_tasks")
    /\ lock' = guard_after_tasks_file("cmd")
    /\ UNCHANGED <<overflow_checks, arg, ret, tasks, settings, clock, tick, fired,
                   dir, files, wr, projects, disk>>

\* commands.rs:90-100  storage.save_tasks(.., should_backup), which may fail
CmdSaveTasks ==
    /\ cmd.pc = "save_tasks"
    /\ \E ok \in BOOLEAN : cmd' = IF ok THEN cmd_at("settings_file") ELSE cmd_done
    /\ UNCHANGED <<overflow_checks, arg, ret, tasks, settings, lock, clock, tick,
                   fired, dir, files, wr, projects, disk>>

\* commands.rs:102  state.settings_file()
CmdPersistSettingsFile ==
    /\ cmd.pc = "settings_file"
    /\ lock = "free"
    /\ cmd' = cmd_at("save_settings")
    /\ lock' = guard_dropped("cmd")
    /\ UNCHANGED <<overflow_checks, arg, ret, tasks, settings, clock, tick, fired,
                   dir, files, wr, projects, disk>>

\* commands.rs:103-109  storage.save_settings(..), which may fail
CmdSaveSettings ==
    /\ cmd.pc = "save_settings"
    /\ \E ok \in BOOLEAN : cmd' = IF ok THEN cmd_at("snapshot") ELSE cmd_done
    /\ UNCHANGED <<overflow_checks, arg, ret, tasks, settings, lock, clock, tick,
                   fired, dir, files, wr, projects, disk>>

\* commands.rs:111  state.snapshot(), then the tray and the event
CmdPersistSnapshot ==
    /\ cmd.pc = "snapshot"
    /\ lock = "free"
    /\ cmd' = cmd_done
    /\ lock' = guard_dropped("cmd")
    /\ UNCHANGED <<overflow_checks, arg, ret, tasks, settings, clock, tick, fired,
                   dir, files, wr, projects, disk>>

Next ==
    \/ Advance
    \/ TickStart \/ TickSettings \/ TickTasks \/ TickLoop \/ TickMark
    \/ TickEnsureDirs \/ TickTasksFile \/ TickSaveTasks \/ TickPayload
    \/ \E id \in TaskIds, until \in Untils : CmdSnoozeTask(id, until)
    \/ \E id \in TaskIds : CmdDismissForced(id)
    \/ CmdStampAndUpdate
    \/ \E id \in TaskIds, due_at \in EditDueAts : CmdUpdateTask(id, due_at)
    \/ CmdUpdateTaskWrite
    \/ \E id \in TaskIds : CmdCompleteTask(id)
    \/ \E id \in TaskIds : CmdDeleteTask(id)
    \/ CmdEnsureDirs \/ CmdPersistSettings \/ CmdPersistUpdateSettings
    \/ CmdPersistTasksFile \/ CmdSaveTasks \/ CmdPersistSettingsFile
    \/ CmdSaveSettings \/ CmdPersistSnapshot

Spec == Init /\ [][Next]_vars

\* the turn of the scheduler has its list of due tasks (sorted, not empty)
collected == tick.pc \notin {"idle", "settings", "tasks", "loop", "panicked"}

tick_returns(id) == collected /\ \E i \in 1..Len(tick.due) : tick.due[i].id = id

\* an earlier turn returned the Forced task `id` and marked it, and no command
\* has written the task since
marked_earlier(id) == fired[id] # None /\ unwrap(fired[id]).no < tick.no

stored(id) == tasks[find_task(tasks, id)]

\* C5 as stated: after a tick returned a Forced task at t and
\* mark_reminder_fired ran for it, no later tick returns it as long as no
\* command modifies the task.
C5_ForcedOnceOnly ==
    \A id \in TaskIds : marked_earlier(id) => ~tick_returns(id)

\* C5 amended: ... no later tick returns it as long as no command modifies
\* the task, provided that the target time the mark left it with (its
\* snoozed_until if one is left, else remind_at, else due_at) is not later
\* than t; whatever the repeat interval.
C5_ForcedOnceOnlyAmended ==
    \A id \in TaskIds :
        /\ marked_earlier(id)
        /\ find_task(tasks, id) # 0
        /\ target_time(stored(id)) <= unwrap(fired[id]).at
        => ~tick_returns(id)

\* C5 witness: with a repeat interval of 1, a turn marked the Forced task at
\* its due time, and a later turn at a later time has collected its due
\* tasks (the Normal task repeating) without the Forced one.
C5_Witness ==
    /\ marked_earlier(1)
    /\ find_task(tasks, 1) # 0
    /\ target_time(stored(1)) <= unwrap(fired[1]).at
    /\ settings.reminder_repeat_interval_sec = 1
    /\ collected /\ tick.now > unwrap(fired[1]).at
    /\ tick_returns(2) /\ ~tick_returns(1)

\* C8: a tick decides on one snapshot: the list it has collected is
\* collect_due_tasks of the clone of the store, the settings and the time it
\* read at its start, whatever the commands did to the store meanwhile.
C8_DecidesOnSnapshot ==
    collected => tick.due = collect_due_tasks(tick.tasks, tick.settings, tick.now).due

\* C8 witness: the tick has its list and has marked nothing yet, a command
\* has changed the store since the clone was taken, and the changed store
\* would have given another list.
C8_Witness ==
    /\ tick.pc = "mark" /\ tick.idx = 1
    /\ tasks # tick.tasks
    /\ collect_due_tasks(tasks, tick.settings, tick.now).due # tick.due

TickFileOps == {"ensure_dirs", "save_tasks"}
CmdFileOps == {"ensure_dirs", "save_tasks", "save_settings"}

\* C9: no file operation of the storage layer runs while the store lock is
\* held: persist_reminder_state and persist work on clones taken under the
\* lock and released before the file is touched.
C9_NoFileOpUnderLock ==
    /\ tick.pc \in TickFileOps => lock # "tick"
    /\ cmd.pc \in CmdFileOps => lock # "cmd"

\* C9 witness: the scheduler and a command are both inside save_tasks, each
\* with the clone it took, and the lock is free.
C9_Witness ==
    /\ tick.pc = "save_tasks" /\ cmd.pc = "save_tasks"
    /\ lock = "free"

\* C31: repeat_fired_count only grows: no step of the scheduler or of a
\* command (mark_reminder_fired, update_task, snooze_task, dismiss_forced,
\* complete_task) leaves a task of the store with a lower repeat_fired_count
\* than it had.
C31_CountMonotonic ==
    [][\A i \in DOMAIN tasks : \A j \in DOMAIN tasks' :
          tasks[i].id = tasks'[j].id =>
             tasks'[j].reminder.repeat_fired_count >= tasks[i].reminder.repeat_fired_count]_vars

\* the step is the update_task write-back of snooze_task or dismiss_forced
writes_back == cmd.pc = "update_task" /\ cmd.op \in {"snooze_task", "dismiss_forced"} /\ cmd'.pc # "update_task"

\* C35: a firing recorded by mark_reminder_fired between the read of the
\* task list by snooze_task or dismiss_forced and its update_task write-back
\* is not lost: the task still carries the count the tick left.
C35_FiringNotLost ==
    [][writes_back =>
          \A i \in DOMAIN tasks :
             (tasks[i].id = unwrap(cmd.task).id
              /\ tasks[i].reminder.repeat_fired_count > unwrap(cmd.task).reminder.repeat_fired_count)
             => tasks'[i].reminder.repeat_fired_count >= tasks[i].reminder.repeat_fired_count]_vars

(***************************************************************************)
(* SpecStorage: storage.rs, write_atomic_bytes.  The scheduler task and    *)
(* the main thread each call save_tasks up to MaxWrites times on the same  *)
(* root; every file operation is one step and may fail.  The directory     *)
(* maps names to inodes, so that a file that was unlinked or renamed while *)
(* a writer holds it open is still the file that writer writes to.  A      *)
(* document is written in DocLen pieces.  Each thread meets at most        *)
(* MaxFaults failures of the environment; a create_new on a taken name     *)
(* fails without counting as one, and so does the remove_file of the guard *)
(* that drops because of a failure of the environment (the cause of the    *)
(* first failure may still be there).                                      *)
(***************************************************************************)
MaxWrites == 2
MaxFaults == 1
DocLen == 2

TEMPFILE_ATTEMPTS == 10

Writers == {"tick", "cmd"}

DATA_FILE == "data.json"

\* path.with_extension("tmp") / with_extension("tmp.{pid}.{attempt}")
temp_path(attempt) ==
    IF attempt = 0 THEN "data.tmp" ELSE "data.tmp.pid." \o ToString(attempt)

Paths == {DATA_FILE} \cup {temp_path(a) : a \in 0..TEMPFILE_ATTEMPTS}

TempPaths == Paths \ {DATA_FILE}

Inodes == 1..(1 + Cardinality(Writers) * (1 + MaxFaults))

NoFile == [doc |-> None, len |-> 0, synced |-> FALSE]

\* what a name of the directory maps to when it is a directory, not a file
Directory == 0 - 1

\* std::io::ErrorKind, as far as write_atomic_bytes tells the kinds apart
ErrorKinds == {"AlreadyExists", "IsADirectory", "PermissionDenied", "Other"}

is_retryable_tempfile_create_error_no_permission(kind) ==
    kind \in {"AlreadyExists", "IsADirectory"}
is_retryable_tempfile_create_error(kind) ==
    kind \in {"AlreadyExists", "IsADirectory", "PermissionDenied"}

WriterIdle == [pc |-> "idle", calls |-> 0, doc |-> None, attempt |-> 0, ino |-> 0,
               retry |-> FALSE, faults |-> 0, result |-> "none", err |-> "none",
               at |-> "none", own |-> 0, left |-> {}, env |-> FALSE,
               remove_failed |-> FALSE]

InitStorage ==
    /\ overflow_checks = FALSE
    /\ arg = NoCall /\ ret = None
    /\ NoStore /\ NoThreads /\ projects = <<>> /\ NoBackups
    /\ dir = [p \in Paths |-> IF p = DATA_FILE THEN 1 ELSE 0]
    /\ files = [i \in Inodes |->
                  IF i = 1 THEN [doc |-> Some(<<"load", 0>>), len |-> DocLen, synced |-> TRUE]
                  ELSE NoFile]
    /\ wr = [w \in Writers |-> WriterIdle]

\* an inode is live while a name or an open writer refers to it; the number
\* of the file a call created is not given out again before the call returns
live(d, ws) ==
    {d[p] : p \in Paths} \cup {ws[w].ino : w \in Writers} \cup {ws[w].own : w \in Writers}

\* the file table once the inodes nothing refers to are gone
reclaimed(fs, d, ws) == [i \in Inodes |-> IF i \in live(d, ws) THEN fs[i] ELSE NoFile]

\* TempPathGuard::drop follows: fs::remove_file, then `continue` or return Err
to_drop_guard(w, retry) == [wr EXCEPT ![w].pc = "drop_guard", ![w].retry = retry, ![w].ino = 0]

\* the operation at position wr[w].pc failed with `kind`; the guard drops
fails(w, kind, retry) ==
    [to_drop_guard(w, retry) EXCEPT ![w].err = kind, ![w].at = wr[w].pc]

\* the call returns; the record keeps the last name tried and the error
returns(w, result) ==
    [wr EXCEPT ![w] = [WriterIdle EXCEPT !.calls = wr[w].calls,
                                         !.faults = wr[w].faults, !.result = result,
                                         !.attempt = wr[w].attempt,
                                         !.err = IF result = "ok" THEN "none" ELSE wr[w].err,
                                         !.at = IF result = "ok" THEN "none" ELSE wr[w].at]]

\* history: the names under which the file the call created is left in `d`
left_behind(w, d) == {p \in Paths : wr[w].own # 0 /\ d[p] = wr[w].own}

\* the outcomes of a file operation of `w`: it fails only within MaxFaults
Outcomes(w) == IF wr[w].faults < MaxFaults THEN BOOLEAN ELSE {TRUE}

\* `ws` with the failure of the operation of `w` counted
faulted(ws, w) == [ws EXCEPT ![w].faults = wr[w].faults + 1, ![w].env = TRUE]

\* the outcomes of the remove_file of the guard of `w`
RemoveOutcomes(w) == IF wr[w].env THEN BOOLEAN ELSE Outcomes(w)

StorageFrame == UNCHANGED <<overflow_checks, arg, ret, tasks, settings, lock, clock,
                            tick, cmd, fired, projects, disk>>

\* storage.rs:182-185  write_atomic: the document is serialized
WriteAtomic(w) ==
    /\ wr[w].pc = "idle"
    /\ wr[w].calls < MaxWrites
    /\ wr' = [wr EXCEPT ![w] = [WriterIdle EXCEPT
                                  !.pc = "create", !.calls = wr[w].calls + 1,
                                  !.faults = wr[w].faults,
                                  !.doc = Some(<<w, wr[w].calls + 1>>)]]
    /\ UNCHANGED <<dir, files>>
    /\ StorageFrame

\* what create_new answers for a name by itself: a taken name is
\* AlreadyExists; for a directory the kind depends on the platform
create_errors(entry) ==
    IF entry = 0 THEN {}
    ELSE IF entry = Directory THEN {"AlreadyExists", "IsADirectory", "PermissionDenied"}
    ELSE {"AlreadyExists"}

\* storage.rs:206-214  TempPathGuard::new(temp_path); create_writer with
\* create_new; a retryable error goes to the next name, any other is returned
CreateWriter(w) ==
    /\ wr[w].pc = "create"
    /\ LET entry == dir[temp_path(wr[w].attempt)]
           own == {<<k, FALSE>> : k \in create_errors(entry)}
           env == IF wr[w].faults < MaxFaults
                  THEN {<<"PermissionDenied", TRUE>>, <<"Other", TRUE>>} ELSE {}
           ok == IF entry = 0 THEN {<<"ok", FALSE>>} ELSE {}
       IN  \E outcome \in ok \cup own \cup env :
             IF outcome[1] = "ok"
             THEN LET i == CHOOSE i \in Inodes : i \notin live(dir, wr) /\
                               \A j \in Inodes : j \notin live(dir, wr) => i <= j
                  IN  /\ dir' = [dir EXCEPT ![temp_path(wr[w].attempt)] = i]
                      /\ files' = [files EXCEPT ![i] = [doc |-> wr[w].doc, len |-> 0,
                                                        synced |-> FALSE]]
                      /\ wr' = [wr EXCEPT ![w].pc = "write", ![w].ino = i, ![w].own = i]
             ELSE /\ wr' = LET ws == fails(w, outcome[1],
                                          is_retryable_tempfile_create_error(outcome[1]))
                           IN  IF outcome[2] THEN faulted(ws, w) ELSE ws
                  /\ UNCHANGED <<dir, files>>
    /\ StorageFrame

\* storage.rs:110-115  Drop for TempPathGuard: let _ = fs::remove_file(path),
\* which may fail and does fail on a directory; then the next attempt, or
\* the error is returned
\* `keep` of the guard that drops after the failure of the step `at`:
\* disarm() comes after the rename only
guard_keep_before_rename(at) == at = "rename"
guard_keep(at) == FALSE

DropGuard(w) ==
    /\ wr[w].pc = "drop_guard"
    /\ \E ok \in RemoveOutcomes(w) :
         LET d == IF ok /\ ~guard_keep(wr[w].at) /\ dir[temp_path(wr[w].attempt)] # Directory
                  THEN [dir EXCEPT ![temp_path(wr[w].attempt)] = 0] ELSE dir
             counted == IF ok \/ wr[w].env THEN wr ELSE faulted(wr, w)
             ws == IF wr[w].retry /\ wr[w].attempt < TEMPFILE_ATTEMPTS
                   THEN [counted EXCEPT ![w].pc = "create",
                                        ![w].attempt = wr[w].attempt + 1,
                                        ![w].retry = FALSE, ![w].env = FALSE]
                   ELSE [returns(w, "err") EXCEPT
                           ![w].faults = counted[w].faults,
                           ![w].left = left_behind(w, d),
                           ![w].remove_failed = ~ok]
         IN  /\ dir' = d
             /\ wr' = ws
             /\ files' = reclaimed(files, d, ws)
    /\ StorageFrame

\* storage.rs:74  writer.write_all_bytes(bytes): one piece reaches the file
WriteAllBytes(w) ==
    /\ wr[w].pc = "write"
    /\ \E ok \in Outcomes(w) :
         IF ok
         THEN /\ files' = [files EXCEPT ![wr[w].ino].len = @ + 1]
              /\ wr' = IF files[wr[w].ino].len + 1 = DocLen
                       THEN [wr EXCEPT ![w].pc = "sync"]
                       ELSE wr
         ELSE /\ wr' = faulted(fails(w, "Other", FALSE), w)
              /\ files' = reclaimed(files, dir, wr')
    /\ UNCHANGED dir
    /\ StorageFrame

\* storage.rs:75, 218  writer.sync_all(); drop(writer)
SyncAll(w) ==
    /\ wr[w].pc = "sync"
    /\ \E ok \in Outcomes(w) :
         IF ok
         THEN /\ wr' = [wr EXCEPT ![w].pc = "rename", ![w].ino = 0]
              /\ files' = reclaimed([files EXCEPT ![wr[w].ino].synced = TRUE], dir, wr')
         ELSE /\ wr' = faulted(fails(w, "Other", FALSE), w)
              /\ files' = reclaimed(files, dir, wr')
    /\ UNCHANGED dir
    /\ StorageFrame

\* storage.rs:220-222  fs::rename(&temp_path, &path)?; cleanup.disarm(); Ok
Rename(w) ==
    /\ wr[w].pc = "rename"
    /\ \E ok \in Outcomes(w) :
         IF ok /\ dir[temp_path(wr[w].attempt)] > 0
         THEN /\ dir' = [dir EXCEPT ![DATA_FILE] = dir[temp_path(wr[w].attempt)],
                                    ![temp_path(wr[w].attempt)] = 0]
              /\ wr' = [returns(w, "ok") EXCEPT ![w].left = left_behind(w, dir')]
              /\ files' = reclaimed(files, dir', wr')
         ELSE /\ wr' = IF ok THEN fails(w, "Other", FALSE)
                       ELSE faulted(fails(w, "Other", FALSE), w)
              /\ UNCHANGED <<dir, files>>
    /\ StorageFrame

\* one step of a write_atomic call of `w`
StorageStep(w) ==
    \/ WriteAtomic(w) \/ CreateWriter(w) \/ DropGuard(w)
    \/ WriteAllBytes(w) \/ SyncAll(w) \/ Rename(w)

NextStorage == \E w \in Writers : StorageStep(w)

SpecStorage == InitStorage /\ [][NextStorage]_vars

canonical == files[dir[DATA_FILE]]

\* C10: at every point during and after a save, whichever step fails, the
\* canonical file holds a complete document (the previous or the new one),
\* written in full and synced before the rename put it there.
C10_CanonicalComplete ==
    /\ dir[DATA_FILE] # 0
    /\ canonical.len = DocLen
    /\ canonical.synced


\* the call of `w` takes the step from this state to the next
steps(w) == wr'[w] # wr[w]

\* a temp name that holds a file `w` did not create in its running call
foreign_temp(w, p) == p \in TempPaths /\ dir[p] > 0 /\ dir[p] # wr[w].own

\* C36: when the write_atomic calls of the tick and of a command run
\* concurrently for the same destination, no step of a call removes,
\* truncates or renames a temporary file the other call created, and a call
\* that met no failure of the environment in its own file operations
\* returns Ok.
C36_NoForeignTemp ==
    /\ [][\A w \in Writers : \A p \in Paths :
             (steps(w) /\ foreign_temp(w, p)) =>
                 dir'[p] = dir[p] /\ files'[dir[p]] = files[dir[p]]]_vars
    /\ [](\A w \in Writers :
             (wr[w].pc = "idle" /\ wr[w].result = "err") => wr[w].faults > 0)

(***************************************************************************)
(* SpecRetry: write_atomic_bytes called by one thread on a root where the  *)
(* first `blocked` temp names are taken by directories (the set-up of the  *)
(* test write_atomic_errors_when_all_tempfile_names_are_blocked), with the *)
(* failures of the environment on top.  The thread keeps stepping.         *)
(***************************************************************************)
InitRetry ==
    /\ overflow_checks = FALSE
    /\ arg = NoCall /\ ret = None
    /\ NoStore /\ NoThreads /\ projects = <<>> /\ NoBackups
    /\ \E blocked \in 0..(TEMPFILE_ATTEMPTS + 1) :
         dir = [p \in Paths |->
                  IF p = DATA_FILE THEN 1
                  ELSE IF \E a \in 0..(blocked - 1) : p = temp_path(a) THEN Directory
                  ELSE 0]
    /\ files = [i \in Inodes |->
                  IF i = 1 THEN [doc |-> Some(<<"load", 0>>), len |-> DocLen, synced |-> TRUE]
                  ELSE NoFile]
    /\ wr = [w \in Writers |->
               IF w = "cmd" THEN WriterIdle ELSE [WriterIdle EXCEPT !.calls = MaxWrites]]

NextRetry == StorageStep("cmd")

SpecRetry == InitRetry /\ [][NextRetry]_vars /\ WF_vars(NextRetry)

\* the call of the main thread is about to retry / to return after a failed create
create_failed == wr["cmd"].pc = "drop_guard" /\ wr["cmd"].at = "create"

\* C11: write_atomic tries the primary name, then at most 10 suffixed names
\* in turn; it goes on to the next name only after a create that failed with
\* AlreadyExists, IsADirectory or PermissionDenied; any other create error
\* is returned without another try; when all 11 names have failed it returns
\* the error; and every call returns.
C11_BoundedRetry ==
    /\ [](wr["cmd"].attempt \in 0..TEMPFILE_ATTEMPTS)
    /\ [][ /\ wr["cmd"]'.attempt # wr["cmd"].attempt =>
                \/ wr["cmd"].pc = "idle" /\ wr["cmd"]'.attempt = 0
                \/ /\ create_failed
                   /\ wr["cmd"].err \in {"AlreadyExists", "IsADirectory", "PermissionDenied"}
                   /\ wr["cmd"]'.attempt = wr["cmd"].attempt + 1
                   /\ wr["cmd"]'.pc = "create"
           /\ create_failed /\ wr["cmd"].err = "Other" =>
                wr["cmd"]'.pc = "idle" /\ wr["cmd"]'.result = "err"
           /\ create_failed /\ wr["cmd"].attempt = TEMPFILE_ATTEMPTS =>
                wr["cmd"]'.pc = "idle" /\ wr["cmd"]'.result = "err"
           /\ create_failed /\ wr["cmd"].attempt < TEMPFILE_ATTEMPTS
                /\ wr["cmd"].err \in {"AlreadyExists", "IsADirectory", "PermissionDenied"} =>
                wr["cmd"]'.pc = "create" ]_vars
    /\ (wr["cmd"].pc # "idle") ~> (wr["cmd"].pc = "idle")

\* C11 witness: a call has returned the error of the 11th name after all
\* names failed, one of them with PermissionDenied.
C11_Witness ==
    /\ wr["cmd"].pc = "idle" /\ wr["cmd"].result = "err"
    /\ wr["cmd"].at = "create"
    /\ wr["cmd"].attempt = TEMPFILE_ATTEMPTS
    /\ wr["cmd"].err = "PermissionDenied"



\* the call of `w` has returned and left the file it created under a temp name
leaves_temp(w) ==
    wr[w].pc = "idle" /\ wr[w].result # "none" /\ wr[w].left \cap TempPaths # {}

MaxSaves == 7
MaxDays == 3
MaxSecs == 2

BACKUP_LIMIT == 5
NEXT_BACKUP_NAME_LIMIT == 9999

\* a backup file fs::copy stopped writing half way
Truncated == 0 - 1

BackupIdle ==
    [pc |-> "idle", calls |-> 0, with_backup |-> FALSE, before |-> None, copied |-> None,
     evicted |-> {}, trimmed |-> FALSE, err |-> "none", faults |-> 0]

InitBackup ==
    /\ overflow_checks = FALSE
    /\ arg = NoCall /\ ret = None
    /\ NoStore /\ NoThreads
    /\ dir = <<>> /\ files = <<>> /\ projects = <<>>
    /\ data = None /\ backups = <<>>
    /\ copy_keeps_mtime \in BOOLEAN
    /\ wr = BackupIdle

BackupFrame == UNCHANGED <<overflow_checks, arg, ret, tasks, settings, lock, tick, cmd, fired, dir, files, projects, copy_keeps_mtime>>

\* time passes between two calls: a second, or the rest of the day
PassTime ==
    /\ wr.pc = "idle"
    /\ \E next \in {clock + 1, (date_naive(clock) + 1) * (24 * 60 * 60)} :
          /\ date_naive(next) < MaxDays
          /\ next - date_naive(next) * (24 * 60 * 60) < MaxSecs
          /\ clock' = next
    /\ UNCHANGED <<data, backups, wr>>
    /\ BackupFrame

\* storage.rs:152-157, 170-178  save_tasks, write_with_backup up to path.exists()
SaveTasks ==
    /\ wr.pc = "idle"
    /\ wr.calls < MaxSaves
    /\ \E with_backup \in BOOLEAN :
          wr' = [BackupIdle EXCEPT !.pc = IF with_backup /\ is_some(data) THEN "backup" ELSE "write",
                                   !.calls = wr.calls + 1,
                                   !.with_backup = with_backup,
                                   !.before = data,
                                   !.faults = wr.faults]
    /\ UNCHANGED <<clock, data, backups>>
    /\ BackupFrame

\* storage.rs:305-311  the name of the index-th backup of a day
backup_name(date, index) ==
    IF index = 1 THEN "data-" \o ToString(date) \o ".json"
    ELSE "data-" \o ToString(date) \o "-" \o ToString(index) \o ".json"

\* storage.rs:300-320  the first name of the day no file has, from `index` on
next_backup_name_with_limit_unchecked(bs, date, index, limit) == Some(backup_name(date, index))
RECURSIVE next_backup_name_with_limit(_, _, _, _)
next_backup_name_with_limit(bs, date, index, limit) ==
    IF index > limit THEN None
    ELSE IF backup_name(date, index) \notin DOMAIN bs THEN Some(backup_name(date, index))
    ELSE next_backup_name_with_limit(bs, date, index + 1, limit)

\* storage.rs:288-295  the sets of entries trim_backups can select: to_remove
\* entries none of which is newer than an entry left; read_dir gives the
\* entries in any order and the sort is stable, so entries with the same
\* modification time are selected in any order
entries_to_remove_newest(bs) ==
    LET to_remove == max(Cardinality(DOMAIN bs) - BACKUP_LIMIT, 0)
    IN  {sel \in SUBSET DOMAIN bs :
            /\ Cardinality(sel) = to_remove
            /\ \A r \in sel : \A k \in DOMAIN bs \ sel : bs[r].modified >= bs[k].modified}
entries_to_remove(bs) ==
    LET to_remove == max(Cardinality(DOMAIN bs) - BACKUP_LIMIT, 0)
    IN  {sel \in SUBSET DOMAIN bs :
            /\ Cardinality(sel) = to_remove
            /\ \A r \in sel : \A k \in DOMAIN bs \ sel : bs[r].modified <= bs[k].modified}

\* the outcomes of a file operation: TRUE = it succeeds; `spent` failures
\* have been injected already
outcomes(spent) == IF spent < MaxFaults THEN BOOLEAN ELSE {TRUE}

\* the directory without the files `gone`
without(bs, gone) == [n \in DOMAIN bs \ gone |-> bs[n]]

\* storage.rs:236-244  create_backup: the name, the copy, the trimming whose
\* errors are dropped.  A copy that fails may leave a part of the file.
CreateBackup ==
    /\ wr.pc = "backup"
    /\ LET name == next_backup_name_with_limit(backups, date_naive(clock), 1, NEXT_BACKUP_NAME_LIMIT)
           file == [doc |-> unwrap(data).doc,
                    modified |-> IF copy_keeps_mtime THEN unwrap(data).modified ELSE clock,
                    created |-> wr.calls]
       IN  IF name = None
           THEN /\ wr' = [wr EXCEPT !.pc = "idle", !.err = "backup"]
                /\ UNCHANGED backups
           ELSE \E copy \in IF wr.faults < MaxFaults THEN {"ok", "failed", "partial"} ELSE {"ok"} :
                  IF copy # "ok"
                  THEN /\ wr' = [wr EXCEPT !.pc = "idle", !.err = "backup", !.faults = wr.faults + 1]
                       /\ backups' = IF copy = "partial"
                                     THEN (unwrap(name) :> [file EXCEPT !.doc = Truncated, !.modified = clock]) @@ backups
                                     ELSE backups
                  ELSE LET copied == (unwrap(name) :> file) @@ backups
                       IN  \E read_dir \in outcomes(wr.faults) :
                             \E sel \in IF read_dir THEN entries_to_remove(copied) ELSE {{}} :
                               \E kept \in IF wr.faults < MaxFaults THEN SUBSET sel ELSE {{}} :
                                 /\ backups' = without(copied, sel \ kept)
                                 /\ wr' = [wr EXCEPT !.pc = "write",
                                                     !.copied = Some([name |-> unwrap(name), doc |-> file.doc]),
                                                     !.evicted = {copied[n] : n \in sel \ kept},
                                                     !.trimmed = read_dir /\ kept = {},
                                                     !.faults = IF read_dir /\ kept = {} THEN wr.faults ELSE wr.faults + 1]
    /\ UNCHANGED <<clock, data>>
    /\ BackupFrame

\* storage.rs:179, 157  write_atomic on data.json, as a whole
WriteData ==
    /\ wr.pc = "write"
    /\ \E written \in outcomes(wr.faults) :
          /\ data' = IF written THEN Some([doc |-> wr.calls, modified |-> clock]) ELSE data
          /\ wr' = [wr EXCEPT !.pc = "idle", !.err = IF written THEN "none" ELSE "write",
                              !.faults = IF written THEN wr.faults ELSE wr.faults + 1]
    /\ UNCHANGED <<clock, backups>>
    /\ BackupFrame

NextBackup == PassTime \/ SaveTasks \/ CreateBackup \/ WriteData

SpecBackup == InitBackup /\ [][NextBackup]_vars

\* the call of save_tasks has returned
saved == wr.pc = "idle" /\ wr.calls > 0

\* C13: save_tasks with a backup copies the existing data.json into backups/
\* before data.json is replaced, under the first name of today's sequence
\* data-<today>.json, data-<today>-2.json, ... that no file has, and the
\* copy holds the content from before the save; without a data.json no
\* backup is made and the save does not fail for it; when the backup cannot
\* be made, data.json is left as it was.
C13_BackupBeforeReplace ==
    [][/\ (wr.pc = "backup" /\ is_some(wr'.copied)) =>
            LET c == unwrap(wr'.copied)
                today == date_naive(clock)
            IN  /\ data' = data
                /\ c.doc = unwrap(data).doc
                /\ c.name \notin DOMAIN backups
                /\ \E i \in 1..(Cardinality(DOMAIN backups) + 1) :
                      /\ c.name = backup_name(today, i)
                      /\ \A j \in 1..(i - 1) : backup_name(today, j) \in DOMAIN backups
       /\ (wr.pc = "write" /\ data' # data /\ wr.with_backup /\ is_some(wr.before)) =>
            /\ is_some(wr.copied)
            /\ unwrap(wr.copied).doc = unwrap(wr.before).doc
            /\ unwrap(data).doc = unwrap(wr.before).doc
       /\ (wr.pc = "idle" /\ wr'.pc # "idle" /\ wr'.with_backup /\ data = None) =>
            wr'.pc = "write"
       /\ (wr.pc = "write" /\ wr.with_backup /\ wr.before = None) =>
            /\ backups' = backups
            /\ wr.copied = None
            /\ wr'.err # "backup"
            /\ data' # data => wr'.err = "none"
       /\ (wr.pc # "idle" /\ wr'.err = "backup") =>
            /\ wr'.pc = "idle"
            /\ data' = data
            /\ data = wr.before
      ]_vars

\* the second backup of a day has been taken and the save has replaced data.json
C13_Witness ==
    /\ saved /\ wr.err = "none" /\ wr.with_backup
    /\ is_some(wr.copied)
    /\ unwrap(wr.copied).name = backup_name(date_naive(clock), 2)
    /\ unwrap(wr.copied).name \in DOMAIN backups
    /\ backups[unwrap(wr.copied).name].doc = unwrap(wr.before).doc
    /\ unwrap(data).doc = wr.calls

BoundaryDays == {0 - 1, 0, 3, 4, 30, 31, 58, 59, 364, 365, 367, 368, 789, 790, 1095, 1096}
Timestamps == {d * (24 * 60 * 60) + s : d \in BoundaryDays, s \in {0, 24 * 60 * 60 - 1}}
BackupSchedules == {"none", "daily", "weekly", "monthly"}
LastBackupAts == {None} \cup {Some(ts) : ts \in Timestamps \cup {MAX_DATETIME_TS + 1, I64_MAX}}

InitAutoBackup ==
    /\ overflow_checks = FALSE
    /\ \E schedule \in BackupSchedules, last \in LastBackupAts, now \in Timestamps :
          arg = [op |-> "should_auto_backup",
                 settings |-> [Settings(0, 0) EXCEPT !.backup_schedule = schedule,
                                                     !.last_backup_at = last],
                 now |-> now]
    /\ ret = None
    /\ NoStore /\ NoThreads /\ NoFiles

ShouldAutoBackup ==
    /\ ret = None
    /\ ret' = Some(should_auto_backup(arg.settings, arg.now))
    /\ UNCHANGED <<overflow_checks, arg, tasks, settings, lock, clock, tick, cmd, fired, dir, files, wr, projects, disk>>

NextAutoBackup == ShouldAutoBackup

SpecAutoBackup == InitAutoBackup /\ [][NextAutoBackup]_vars

\* C15: should_auto_backup is false for the schedule None and true without a
\* last_backup_at; otherwise it is true exactly when last_backup_at and now
\* are on different calendar days (Daily), in different weeks from Monday to
\* Sunday (Weekly), in different months of a year (Monthly), whatever the
\* number of seconds between them.  A last_backup_at that is no date counts
\* as a different day, week and month.
C15_NewPeriod ==
    is_some(ret) =>
        LET schedule == arg.settings.backup_schedule
            last == arg.settings.last_backup_at
            day(ts) == ts \div (24 * 60 * 60)
            monday(ts) == day(ts) - ((day(ts) + 3) % 7)
            RECURSIVE months_to(_, _, _, _)
            months_to(d, y, m, first) ==
                LET leap == (y % 4 = 0 /\ y % 100 # 0) \/ y % 400 = 0
                    len == IF m = 2 THEN (IF leap THEN 29 ELSE 28)
                           ELSE IF m \in {4, 6, 9, 11} THEN 30 ELSE 31
                IN  IF d < first + len THEN 0
                    ELSE 1 + months_to(d, IF m = 12 THEN y + 1 ELSE y, IF m = 12 THEN 1 ELSE m + 1, first + len)
            month(ts) == months_to(day(ts), 1969, 1, 0 - 365)
        IN  unwrap(ret) =
               CASE schedule = "none" -> FALSE
                 [] schedule # "none" /\ last = None -> TRUE
                 [] schedule # "none" /\ last # None /\ unwrap(last) > MAX_DATETIME_TS -> TRUE
                 [] OTHER ->
                      CASE schedule = "daily" -> day(unwrap(last)) # day(arg.now)
                        [] schedule = "weekly" -> monday(unwrap(last)) # monday(arg.now)
                        [] schedule = "monthly" -> month(unwrap(last)) # month(arg.now)

\* Thursday 1970-12-31 and Friday 1971-01-01 are in one week: no weekly backup
C15_Witness ==
    /\ ret = Some(FALSE)
    /\ arg.settings.backup_schedule = "weekly"
    /\ arg.settings.last_backup_at = Some(364 * (24 * 60 * 60))
    /\ arg.now = 365 * (24 * 60 * 60) + (24 * 60 * 60 - 1)

(***************************************************************************)
(* state.rs: the projects and the normalisation of loaded collections.     *)
(* A stored task is the part of a Task the normalisation reads or writes.  *)
(***************************************************************************)
INBOX_PROJECT_ID == "inbox"

Project(id, pinned, sort_order, created_at) ==
    [id |-> id, pinned |-> pinned, sort_order |-> sort_order, created_at |-> created_at,
     updated_at |-> created_at]

StoredTask(id, project_id, sort_order, created_at) ==
    [id |-> id, project_id |-> project_id, sort_order |-> sort_order, created_at |-> created_at]

TasksFile(ts, ps) == [tasks |-> ts, projects |-> ps]

\* models.rs:236-262  Settings::default()
DefaultSettings == Settings(10 * 60, 0)

has_inbox(ps) == \E i \in DOMAIN ps : ps[i].id = INBOX_PROJECT_ID

ensure_inbox_project_unpinned(ps, now) ==
    IF has_inbox(ps) THEN ps ELSE Append(ps, Project(INBOX_PROJECT_ID, FALSE, 0, now))
ensure_inbox_project(ps, now) ==
    IF has_inbox(ps) THEN ps ELSE Append(ps, Project(INBOX_PROJECT_ID, TRUE, 0, now))

normalize_projects(ps) ==
    [i \in DOMAIN ps |->
        IF ps[i].sort_order = 0
        THEN [ps[i] EXCEPT !.sort_order = wrapping(ps[i].created_at * 1000)]
        ELSE ps[i]]

\* project_id.trim().is_empty()
is_blank(id) == id \in {"", " "}

normalize_tasks(ts, ps) ==
    [i \in DOMAIN ts |->
        LET ordered == IF ts[i].sort_order = 0
                       THEN [ts[i] EXCEPT !.sort_order = wrapping(ts[i].created_at * 1000)]
                       ELSE ts[i]
        IN  IF is_blank(ordered.project_id) \/ ordered.project_id \notin {ps[j].id : j \in DOMAIN ps}
            THEN [ordered EXCEPT !.project_id = INBOX_PROJECT_ID]
            ELSE ordered]

\* state.rs:159-170  replace_projects: the projects and tasks it leaves
replace_projects(ps, ts, now) ==
    LET next == normalize_projects(ensure_inbox_project(ps, now))
    IN  [projects |-> next, tasks |-> normalize_tasks(ts, next)]

\* state.rs:79-95  AppState::new: the projects and tasks of the new store
new(ts, ps, now) ==
    LET next == normalize_projects(ensure_inbox_project(ps, now))
    IN  [projects |-> next, tasks |-> normalize_tasks(ts, next)]

(***************************************************************************)
(* SpecPersist: the commands of the main thread that end in persist, one   *)
(* after the other (the scheduler saves through persist_reminder_state,    *)
(* which never asks for a backup and never writes the settings).  `ret` is *)
(* the history of the persist calls.  update_settings gets the settings    *)
(* of the front end, which here always carry the current last_backup_at.   *)
(***************************************************************************)
MaxPersists == 3

InitPersist ==
    /\ overflow_checks = FALSE
    /\ arg = NoCall /\ ret = <<>>
    /\ tasks = <<>> /\ lock = "free"
    /\ projects = new(<<>>, <<>>, 0).projects
    /\ \E last \in {None, Some(0)} : settings = [Settings(0, 0) EXCEPT !.last_backup_at = last]
    /\ NoThreads
    /\ dir = <<>> /\ files = <<>>
    /\ NoBackups
    /\ wr = BackupIdle

\* commands.rs:64-126  persist: the settings it leaves in the store, whether
\* it asks save_tasks for a backup, and its result; `failing` is the step
\* that fails, if one does
persist(s, now, failing) ==
    LET should_backup == should_auto_backup(s, now)
        stamped == IF should_backup THEN [s EXCEPT !.last_backup_at = Some(now)] ELSE s
    IN  IF failing = "ensure_dirs"
        THEN [settings |-> s, with_backup |-> FALSE, saved |-> FALSE, ok |-> FALSE]
        ELSE [settings |-> stamped, with_backup |-> should_backup,
              saved |-> failing # "save_tasks", ok |-> failing = "none"]

PersistSteps == {"none", "ensure_dirs", "save_tasks", "save_settings"}

\* the tasks, projects and settings of the store
app_data == [tasks |-> tasks, projects |-> projects, settings |-> settings]

\* the history with the call of persist at `now` on the settings `s`, in a
\* command that found the store as it is and leaves it as `after`
logged(s, now, p, op, after) ==
    Append(ret, [now |-> now, schedule |-> s.backup_schedule, last |-> s.last_backup_at,
                 with_backup |-> p.with_backup, saved |-> p.saved, ok |-> p.ok,
                 stored |-> p.settings.last_backup_at,
                 op |-> op, before |-> app_data, after |-> after])

PersistFrame == UNCHANGED <<overflow_checks, arg, lock, clock, tick, cmd, fired, dir, files, wr, projects, disk>>

\* commands.rs:467-501  create_task_impl (the other commands on tasks and
\* projects end the same way): the task is added to the store, persist
\* runs, an error of persist is returned as it is
TaskCommand ==
    /\ Len(ret) < MaxPersists
    /\ \E failing \in PersistSteps :
          LET task == normalize_tasks(<<StoredTask("t", "gone", 0, clock)>>, projects)[1]
              p == persist(settings, clock, failing)
          IN  /\ tasks' = Append(tasks, task)
              /\ settings' = p.settings
              /\ ret' = logged(settings, clock, p, "create_task",
                               [tasks |-> Append(tasks, task), projects |-> projects, settings |-> p.settings])
    /\ PersistFrame

\* commands.rs:715-818  update_settings_impl: the new settings are stored,
\* persist runs, and the previous settings are put back when it fails
UpdateSettings ==
    /\ Len(ret) < MaxPersists
    /\ \E schedule \in {"daily", "none"}, failing \in PersistSteps :
          LET previous == settings
              next == [settings EXCEPT !.backup_schedule = schedule]
              p == persist(next, clock, failing)
              after == IF p.ok THEN p.settings ELSE previous
          IN  /\ settings' = after
              /\ ret' = logged(next, clock, p, "update_settings",
                               [tasks |-> tasks, projects |-> projects, settings |-> after])
    /\ UNCHANGED tasks
    /\ PersistFrame

NextPersist == PassTime \/ TaskCommand \/ UpdateSettings

SpecPersist == InitPersist /\ [][NextPersist]_vars

\* C16: with the Daily schedule and a last_backup_at on an earlier day, a
\* persist that succeeds asks for the backup and stores now as
\* last_backup_at, and no two persists of one calendar day take a backup.
C16_OneAutoBackupPerDay ==
    /\ \A i \in DOMAIN ret :
          (/\ ret[i].ok /\ ret[i].schedule = "daily" /\ is_some(ret[i].last)
           /\ date_naive(unwrap(ret[i].last)) < date_naive(ret[i].now)) =>
             ret[i].with_backup /\ ret[i].stored = Some(ret[i].now)
    /\ \A i \in DOMAIN ret : \A j \in DOMAIN ret :
          (/\ i < j /\ ret[i].with_backup /\ ret[j].with_backup
           /\ ret[i].saved /\ ret[j].saved
           /\ ret[i].schedule = "daily" /\ ret[j].schedule = "daily") =>
             date_naive(ret[i].now) # date_naive(ret[j].now)

(***************************************************************************)
(* SpecLoad: load_state and the start of the application on every state of *)
(* data.json and settings.json: missing, not readable, not UTF-8, text     *)
(* that is no document, a document cut short, a whole document.  A file    *)
(* with text holds the first `len` of the DocLen parts of `doc`.           *)
(***************************************************************************)
TasksDocs ==
    {TasksFile(<<>>, <<>>),
     TasksFile(<<StoredTask("t1", INBOX_PROJECT_ID, 1000, 1)>>, <<Project(INBOX_PROJECT_ID, TRUE, 1000, 1)>>),
     TasksFile(<<StoredTask("t1", "gone", 0, 1)>>, <<Project("work", FALSE, 0, 2)>>)}
SettingsDocs == {DefaultSettings, [Settings(60, 3) EXCEPT !.backup_schedule = "weekly", !.last_backup_at = Some(0)]}
NotDocuments == {"not-json", "{}"}

\* the states of a file whose documents are `docs`; `text` is "document" or
\* what the file holds instead of one
LoadFiles(docs) ==
    {[state |-> st, text |-> "", doc |-> <<>>, len |-> 0] : st \in {"missing", "unreadable", "invalid_utf8"}}
        \cup {[state |-> "text", text |-> "document", doc |-> d, len |-> n] : d \in docs, n \in 0..DocLen}
        \cup {[state |-> "text", text |-> t, doc |-> <<>>, len |-> n] : t \in NotDocuments, n \in 0..DocLen}

\* storage.rs:163-168  load_json: File::open, read_to_string, serde_json::from_str
load_json_lenient(file, empty) ==
    CASE file.state \in {"missing", "unreadable"} -> [err |-> "Io", value |-> None]
      [] file.state = "invalid_utf8" -> [err |-> "Io", value |-> None]
      [] file.state = "text" /\ file.text \in NotDocuments -> [err |-> "Json", value |-> None]
      [] OTHER -> [err |-> "none", value |-> Some(IF file.len < DocLen THEN empty ELSE file.doc)]
load_json(file, empty) ==
    CASE file.state \in {"missing", "unreadable"} -> [err |-> "Io", value |-> None]
      [] file.state = "invalid_utf8" -> [err |-> "Io", value |-> None]
      [] file.state = "text" /\ (file.text \in NotDocuments \/ file.len < DocLen) -> [err |-> "Json", value |-> None]
      [] OTHER -> [err |-> "none", value |-> Some(file.doc)]

InitLoad ==
    /\ overflow_checks = FALSE
    /\ \E d \in LoadFiles(TasksDocs), s \in LoadFiles(SettingsDocs) :
          arg = [op |-> "load", data |-> d, settings |-> s]
    /\ ret = None
    /\ tasks = <<>> /\ projects = <<>> /\ settings = Settings(0, 0) /\ lock = "free"
    /\ NoThreads
    /\ dir = <<>> /\ files = <<>> /\ wr = <<>>
    /\ NoBackups

LoadFrame == UNCHANGED <<overflow_checks, arg, lock, clock, tick, cmd, fired, dir, files, wr, disk>>

\* what the callers of load_tasks and load_settings go on with
loaded(file, empty) == LET r == load_json(file, empty) IN IF r.err = "none" THEN unwrap(r.value) ELSE empty

\* lib.rs:107-213, state.rs:79-95  the start of the application: ensure_dirs,
\* the two loads with their defaults, AppState::new
Setup ==
    /\ ret = None
    /\ \E ensure_dirs \in BOOLEAN :
          IF ~ensure_dirs
          THEN /\ ret' = Some([op |-> "setup", ok |-> FALSE])
               /\ UNCHANGED <<tasks, projects, settings>>
          ELSE LET file == loaded(arg.data, TasksFile(<<>>, <<>>))
                   store == new(file.tasks, file.projects, clock)
               IN  /\ tasks' = store.tasks
                   /\ projects' = store.projects
                   /\ settings' = loaded(arg.settings, DefaultSettings)
                   /\ ret' = Some([op |-> "setup", ok |-> TRUE])
    /\ LoadFrame

\* commands.rs:237-284  load_state_impl on the store of a running application
LoadState ==
    /\ is_some(ret) /\ unwrap(ret).op = "setup" /\ unwrap(ret).ok
    /\ \E ensure_dirs \in BOOLEAN :
          IF ~ensure_dirs
          THEN /\ ret' = Some([op |-> "load_state", ok |-> FALSE])
               /\ UNCHANGED <<tasks, projects, settings>>
          ELSE LET file == loaded(arg.data, TasksFile(<<>>, <<>>))
                   replaced == replace_projects(file.projects, tasks, clock)
               IN  /\ projects' = replaced.projects
                   /\ tasks' = normalize_tasks(file.tasks, replaced.projects)
                   /\ settings' = loaded(arg.settings, DefaultSettings)
                   /\ ret' = Some([op |-> "load_state", ok |-> TRUE])
    /\ LoadFrame

NextLoad == Setup \/ LoadState

SpecLoad == InitLoad /\ [][NextLoad]_vars

\* C17: load_tasks and load_settings give an Io error for a file that is
\* missing or cannot be read and a Json error for text that is no document
\* or a document cut short, and otherwise the whole document, never a part
\* of one; after either error the start of the application and load_state
\* go on with no tasks and only the inbox project, or the default settings.
C17_LoadErrorsRecovered ==
    LET whole(f) == f.state = "text" /\ f.text = "document" /\ f.len = DocLen
        kind(f) == IF f.state # "text" THEN "Io" ELSE IF whole(f) THEN "none" ELSE "Json"
        data_result == load_json(arg.data, TasksFile(<<>>, <<>>))
        settings_result == load_json(arg.settings, DefaultSettings)
    IN  /\ data_result.err = kind(arg.data)
        /\ settings_result.err = kind(arg.settings)
        /\ data_result.value = IF whole(arg.data) THEN Some(arg.data.doc) ELSE None
        /\ settings_result.value = IF whole(arg.settings) THEN Some(arg.settings.doc) ELSE None
        /\ (is_some(ret) /\ unwrap(ret).ok) =>
              /\ ~whole(arg.data) =>
                    /\ tasks = <<>>
                    /\ projects = <<Project(INBOX_PROJECT_ID, TRUE, 0, clock)>>
              /\ ~whole(arg.settings) => settings = DefaultSettings
              /\ whole(arg.settings) => settings = arg.settings.doc
              /\ whole(arg.data) => Len(tasks) = Len(arg.data.doc.tasks)

\* load_state has gone on with the defaults for a data.json cut short and
\* for a settings.json that is missing
C17_Witness ==
    /\ ret = Some([op |-> "load_state", ok |-> TRUE])
    /\ arg.data.state = "text" /\ arg.data.text = "document" /\ arg.data.len = 1
    /\ arg.data.doc.tasks # <<>>
    /\ arg.settings.state = "missing"
    /\ tasks = <<>> /\ settings = DefaultSettings

(***************************************************************************)
(* SpecRestore: restore_backup and import_backup on the main thread, with  *)
(* the scheduler saving the tasks it finds in the store.  The store and    *)
(* data.json start equal, as a persist leaves them.                        *)
(***************************************************************************)
RestoreIdle == [pc |-> "idle", op |-> "none", ok |-> FALSE, source |-> <<>>]

InitRestore ==
    /\ overflow_checks = FALSE
    /\ ret = None
    /\ \E op \in {"restore_backup", "import_backup"}, source \in LoadFiles(TasksDocs) :
          arg = [op |-> op, source |-> source]
    /\ \E doc \in TasksDocs :
          /\ tasks = new(doc.tasks, doc.projects, 0).tasks
          /\ projects = new(doc.tasks, doc.projects, 0).projects
    /\ data = Some([doc |-> TasksFile(tasks, projects), modified |-> 0])
    /\ settings = DefaultSettings /\ lock = "free"
    /\ clock = 0 /\ tick = TickIdle /\ fired = <<>>
    /\ cmd = RestoreIdle
    /\ dir = <<>> /\ files = <<>> /\ wr = <<>>
    /\ backups = <<>> /\ copy_keeps_mtime = FALSE

RestoreFrame == UNCHANGED <<overflow_checks, arg, ret, settings, lock, clock, fired, dir, files, wr, backups, copy_keeps_mtime>>

\* storage.rs:274-286, commands.rs:1246-1270  restore_backup / restore_from_path:
\* the source is loaded and written to data.json as it was parsed
RestoreWrite ==
    /\ cmd.pc = "idle"
    /\ LET r == load_json(arg.source, TasksFile(<<>>, <<>>))
       IN  \E write_atomic \in BOOLEAN :
             IF r.err # "none" \/ ~write_atomic
             THEN /\ cmd' = [RestoreIdle EXCEPT !.pc = "done", !.op = arg.op]
                  /\ UNCHANGED data
             ELSE /\ cmd' = [pc |-> "written", op |-> arg.op, ok |-> FALSE, source |-> unwrap(r.value)]
                  /\ data' = Some([doc |-> unwrap(r.value), modified |-> clock])
    /\ UNCHANGED <<tasks, projects, tick>>
    /\ RestoreFrame

\* commands.rs:1277-1288  the store takes the projects and tasks of the source
ReplaceStore ==
    /\ cmd.pc = "written"
    /\ LET replaced == replace_projects(cmd.source.projects, tasks, clock)
       IN  /\ projects' = replaced.projects
           /\ tasks' = normalize_tasks(cmd.source.tasks, replaced.projects)
    /\ cmd' = [cmd EXCEPT !.pc = "done", !.ok = TRUE]
    /\ UNCHANGED <<data, tick>>
    /\ RestoreFrame

\* scheduler.rs:57-80  persist_reminder_state after a reminder has fired:
\* the tasks and projects of the store are saved
SchedulerSave ==
    /\ tick.no < MaxTicks
    /\ tasks # <<>>
    /\ \E save_tasks \in BOOLEAN :
          data' = IF save_tasks THEN Some([doc |-> TasksFile(tasks, projects), modified |-> clock]) ELSE data
    /\ tick' = [tick EXCEPT !.no = tick.no + 1]
    /\ UNCHANGED <<tasks, projects, cmd>>
    /\ RestoreFrame

NextRestore == RestoreWrite \/ ReplaceStore \/ SchedulerSave

SpecRestore == InitRestore /\ [][NextRestore]_vars

\* C18: after a successful restore_backup or import_backup the store holds
\* the normalised tasks and projects of the source, and data.json holds the
\* tasks and projects of the store.
C18_DiskEqualsMemory ==
    (cmd.pc = "done" /\ cmd.ok) =>
        /\ projects = normalize_projects(ensure_inbox_project(cmd.source.projects, clock))
        /\ tasks = normalize_tasks(cmd.source.tasks, projects)
        /\ unwrap(data).doc = TasksFile(tasks, projects)

\* C19: a command that returns a storage error leaves the tasks, projects
\* and settings of the store as it found them.
C19_RolledBack ==
    \A i \in DOMAIN ret : ~ret[i].ok => ret[i].after = ret[i].before

(***************************************************************************)
(* SpecProjects: the store operations on projects, from a store built by   *)
(* AppState::new from a loaded list of projects.  The store has one task,  *)
(* of the project "work".                                                  *)
(***************************************************************************)
MaxProjects == 3

ProjectInputs ==
    {Project(id, pinned, sort_order, 1) : id \in {INBOX_PROJECT_ID, "work"}, pinned \in BOOLEAN, sort_order \in {0, 5}}

InitProjects ==
    /\ overflow_checks = FALSE
    /\ arg = NoCall /\ ret = None
    /\ \E ps \in {<<>>} \cup {<<p>> : p \in ProjectInputs} \cup {<<p, q>> : p, q \in ProjectInputs} :
          /\ projects = new(<<StoredTask("t1", "work", 1000, 1)>>, ps, 0).projects
          /\ tasks = new(<<StoredTask("t1", "work", 1000, 1)>>, ps, 0).tasks
    /\ settings = Settings(0, 0) /\ lock = "free"
    /\ NoThreads
    /\ dir = <<>> /\ files = <<>> /\ wr = <<>>
    /\ NoBackups

ProjectsFrame == UNCHANGED <<overflow_checks, ret, settings, lock, clock, tick, cmd, fired, dir, files, wr, disk>>

\* the call and the store it found
called(op, id) == [op |-> op, id |-> id, projects |-> projects, tasks |-> tasks]

\* state.rs:147-150  add_project
AddProject ==
    /\ Len(projects) < MaxProjects
    /\ \E p \in ProjectInputs :
          /\ projects' = Append(projects, p)
          /\ arg' = called("add_project", p.id)
    /\ UNCHANGED tasks
    /\ ProjectsFrame

\* state.rs:183-188  update_project: the first project with the id is replaced
UpdateProject ==
    /\ \E p \in ProjectInputs :
          LET found == {i \in DOMAIN projects : projects[i].id = p.id}
              first == CHOOSE i \in found : \A j \in found : i <= j
          IN  /\ projects' = IF found = {} THEN projects ELSE [projects EXCEPT ![first] = p]
              /\ arg' = called("update_project", p.id)
    /\ UNCHANGED tasks
    /\ ProjectsFrame

\* state.rs:159-170  replace_projects
ReplaceProjects ==
    /\ \E ps \in {<<>>} \cup {<<p>> : p \in ProjectInputs} :
          /\ projects' = replace_projects(ps, tasks, clock).projects
          /\ tasks' = replace_projects(ps, tasks, clock).tasks
          /\ arg' = called("replace_projects", "")
    /\ ProjectsFrame

\* state.rs:190-198  remove_project
RemoveProject ==
    /\ \E id \in {INBOX_PROJECT_ID, "work", "none"} :
          LET kept == SelectSeq(projects, LAMBDA p : p.id # id)
          IN  /\ projects' = IF id = INBOX_PROJECT_ID THEN projects ELSE kept
              /\ tasks' = IF id = INBOX_PROJECT_ID THEN tasks ELSE normalize_tasks(tasks, kept)
              /\ arg' = called("remove_project", id)
    /\ ProjectsFrame

\* state.rs:226-255  swap_project_sort_order: the scan keeps the last index
\* seen for each id until both are found
SwapProjectSortOrder ==
    /\ \E first_id \in {INBOX_PROJECT_ID, "work"}, second_id \in {INBOX_PROJECT_ID, "work"}, updated_at \in {7} :
          LET RECURSIVE scan(_, _, _)
              scan(index, first, second) ==
                  IF index > Len(projects) \/ (first # 0 /\ second # 0) THEN <<first, second>>
                  ELSE IF projects[index].id = first_id THEN scan(index + 1, index, second)
                  ELSE IF projects[index].id = second_id THEN scan(index + 1, first, index)
                  ELSE scan(index + 1, first, second)
              first_index == scan(1, 0, 0)[1]
              second_index == scan(1, 0, 0)[2]
          IN  /\ projects' =
                    IF first_index = 0 \/ second_index = 0 THEN projects
                    ELSE [projects EXCEPT ![first_index].sort_order = projects[second_index].sort_order,
                                          ![first_index].updated_at = updated_at,
                                          ![second_index].sort_order = projects[first_index].sort_order,
                                          ![second_index].updated_at = updated_at]
              /\ arg' = called("swap_project_sort_order", first_id)
    /\ UNCHANGED tasks
    /\ ProjectsFrame

NextProjects == AddProject \/ UpdateProject \/ ReplaceProjects \/ RemoveProject \/ SwapProjectSortOrder

SpecProjects == InitProjects /\ [][NextProjects]_vars

\* C20: after the construction of the store and after every store operation
\* on projects, the list has a project with the id "inbox" and that project
\* is pinned; remove_project("inbox") changes nothing.
C20_InboxPinned ==
    /\ has_inbox(projects)
    /\ \A i \in DOMAIN projects : projects[i].id = INBOX_PROJECT_ID => projects[i].pinned
    /\ (arg.op = "remove_project" /\ arg.id = INBOX_PROJECT_ID) =>
          projects = arg.projects /\ tasks = arg.tasks

(***************************************************************************)
(* SpecEdits: create_task / update_task on one thread and delete_project   *)
(* on another, against one store.  Each step is one call of a store method *)
(* (one acquisition of the mutex); a command reads the projects and writes *)
(* the task in two calls.  The store is built by AppState::new from a      *)
(* loaded file, whose project ids may be any string.                       *)
(***************************************************************************)
MaxEdits == 2

ProjectIds == {"work", ""}

\* str::trim on the ids the commands get
trim(id) == IF id = " work" THEN "work" ELSE IF id = " " THEN "" ELSE id

EditIdle == [pc |-> "idle", op |-> "none", task |-> None, n |-> 0]
DeleteIdle == [pc |-> "idle", id |-> "", moves |-> <<>>, n |-> 0]

LoadedProjects == {<<>>} \cup {<<Project(id, FALSE, 5, 1)>> : id \in ProjectIds}
                         \cup {<<Project("work", FALSE, 5, 1), Project("", FALSE, 6, 1)>>}

LoadedTasks == {<<>>} \cup {<<StoredTask("t1", id, 5, 1)>> : id \in {"work", "", "ghost"}}

TaskInputs ==
    {StoredTask(id, project_id, sort_order, 1) :
        id \in {"t1", "t2"}, project_id \in {"work", "", "ghost"}, sort_order \in {0, 5}}

InitEdits ==
    /\ overflow_checks = FALSE
    /\ arg = NoCall /\ ret = None
    /\ \E ps \in LoadedProjects, ts \in LoadedTasks :
          /\ projects = new(ts, ps, 0).projects
          /\ tasks = new(ts, ps, 0).tasks
    /\ settings = Settings(0, 0) /\ lock = "free"
    /\ clock = 0 /\ tick = TickIdle /\ fired = <<>>
    /\ cmd = [edit |-> EditIdle, delete |-> DeleteIdle]
    /\ dir = <<>> /\ files = <<>> /\ wr = <<>>
    /\ NoBackups

EditsFrame == UNCHANGED <<overflow_checks, ret, settings, lock, clock, tick, fired, dir, files, wr, disk>>

\* state.rs:142-145  add_task
add_task(ts, task) == Append(ts, task)

\* state.rs:152-157  replace_tasks
replace_tasks(ts, ps) == normalize_tasks(ts, ps)

\* state.rs:190-198  remove_project: the projects and tasks it leaves
remove_project(ps, ts, id) ==
    LET kept == SelectSeq(ps, LAMBDA p : p.id # id)
    IN  IF id = INBOX_PROJECT_ID THEN [projects |-> ps, tasks |-> ts]
        ELSE [projects |-> kept, tasks |-> normalize_tasks(ts, kept)]

\* commands.rs:468-484, 504-520  the task a command hands to the store
checked_task(task, ps) ==
    LET ordered == IF task.sort_order = 0
                   THEN [task EXCEPT !.sort_order = wrapping(task.created_at * 1000)]
                   ELSE task
    IN  IF \E i \in DOMAIN ps : ps[i].id = ordered.project_id
        THEN ordered
        ELSE [ordered EXCEPT !.project_id = INBOX_PROJECT_ID]

\* create_task_impl / update_task_impl up to the check of the project
EditCheck ==
    /\ cmd.edit.pc = "idle" /\ cmd.edit.n < MaxEdits
    /\ \E op \in {"create_task", "update_task"}, task \in TaskInputs :
          cmd' = [cmd EXCEPT !.edit = [pc |-> "checked", op |-> op,
                                       task |-> Some(checked_task(task, projects)),
                                       n |-> @.n + 1]]
    /\ UNCHANGED <<arg, tasks, projects>>
    /\ EditsFrame

\* create_task_impl: state.add_task; update_task_impl: state.update_task
EditWrite ==
    /\ cmd.edit.pc = "checked"
    /\ tasks' = IF cmd.edit.op = "create_task"
                THEN add_task(tasks, unwrap(cmd.edit.task))
                ELSE update_task(tasks, unwrap(cmd.edit.task))
    /\ arg' = [op |-> cmd.edit.op]
    /\ cmd' = [cmd EXCEPT !.edit.pc = "idle"]
    /\ UNCHANGED projects
    /\ EditsFrame

\* delete_project_impl up to the check that the project exists
DeleteCheck ==
    /\ cmd.delete.pc = "idle" /\ cmd.delete.n < MaxEdits
    /\ \E project_id \in {"work", " work", " ", INBOX_PROJECT_ID, "ghost"} :
          LET id == trim(project_id)
              refused == \/ id = ""
                         \/ id = INBOX_PROJECT_ID
                         \/ ~ \E i \in DOMAIN projects : projects[i].id = id
          IN  cmd' = [cmd EXCEPT !.delete = [pc |-> IF refused THEN "idle" ELSE "found",
                                             id |-> id, moves |-> <<>>, n |-> @.n + 1]]
    /\ UNCHANGED <<arg, tasks, projects>>
    /\ EditsFrame

\* delete_project_impl: state.tasks() and the copies to move
DeleteTasks ==
    /\ cmd.delete.pc = "found"
    /\ LET mine == SelectSeq(tasks, LAMBDA t : t.project_id = cmd.delete.id)
       IN  cmd' = [cmd EXCEPT !.delete.pc = "moving",
                              !.delete.moves = [i \in DOMAIN mine |->
                                                  [mine[i] EXCEPT !.project_id = INBOX_PROJECT_ID]]]
    /\ UNCHANGED <<arg, tasks, projects>>
    /\ EditsFrame

\* delete_project_impl: state.update_task for each copy, then
\* state.remove_project
DeleteMove ==
    /\ cmd.delete.pc = "moving"
    /\ IF cmd.delete.moves # <<>>
       THEN /\ tasks' = update_task(tasks, Head(cmd.delete.moves))
            /\ cmd' = [cmd EXCEPT !.delete.moves = Tail(@)]
            /\ UNCHANGED <<arg, projects>>
       ELSE /\ tasks' = remove_project(projects, tasks, cmd.delete.id).tasks
            /\ projects' = remove_project(projects, tasks, cmd.delete.id).projects
            /\ arg' = [op |-> "remove_project"]
            /\ cmd' = [cmd EXCEPT !.delete.pc = "idle"]
    /\ EditsFrame

\* load_state_impl: replace_projects, then replace_tasks, with the file
LoadStateEdits ==
    /\ cmd.delete.pc = "idle" /\ cmd.delete.n < MaxEdits
    /\ \E ps \in LoadedProjects, ts \in LoadedTasks :
          LET replaced == replace_projects(ps, tasks, clock)
          IN  /\ projects' = replaced.projects
              /\ tasks' = replace_tasks(ts, replaced.projects)
    /\ arg' = [op |-> "replace_tasks"]
    /\ cmd' = [cmd EXCEPT !.delete.n = @ + 1]
    /\ EditsFrame

NextEdits == EditCheck \/ EditWrite \/ DeleteCheck \/ DeleteTasks \/ DeleteMove \/ LoadStateEdits

SpecEdits == InitEdits /\ [][NextEdits]_vars

\* C21: after every mutation of the store by a command, every task refers
\* to a project of the store and no task has a blank project id, also when
\* create_task / update_task run at the same time as delete_project.
C21_ProjectIdsKnown ==
    \A i \in DOMAIN tasks :
        /\ \E j \in DOMAIN projects : projects[j].id = tasks[i].project_id
        /\ ~ is_blank(tasks[i].project_id)

(***************************************************************************)
(* repeat.rs: next_due_timestamp.  A date is a number of days since        *)
(* 1970-01-01 and a naive date-time a number of seconds since              *)
(* 1970-01-01T00:00:00; chrono's dates end at MAX_DATE and start at        *)
(* MIN_DATE, and an operation that leaves the range panics or returns      *)
(* None as chrono's does.  A result of None is a panic.                    *)
(*                                                                         *)
(* chrono::Local is the time zone of the machine: an offset from UTC that  *)
(* is `std` except between the instants `fwd` and `back`, where it is      *)
(* `std + gap`.                                                            *)
(***************************************************************************)
SECS_PER_DAY == 24 * 60 * 60
SECS_PER_HOUR == 60 * 60

MAX_DATE == date_naive(MAX_DATETIME_TS)
MIN_DATE == date_naive(0 - MAX_DATETIME_TS)

Tz(std, fwd, gap, back) == [std |-> std, fwd |-> fwd, gap |-> gap, back |-> back]
UTC == Tz(0, 0, 0, 0)

\* TimeZone::offset_from_utc_datetime
offset_at(tz, utc) == IF tz.fwd <= utc /\ utc < tz.back THEN tz.std + tz.gap ELSE tz.std

\* TimeZone::from_local_datetime: the instants whose local time is `naive`,
\* earliest first: <<>> is LocalResult::None, two instants are Ambiguous
from_local_datetime(tz, naive) ==
    LET early == naive - tz.std - tz.gap
        late == naive - tz.std
    IN  (IF early # late /\ early + offset_at(tz, early) = naive THEN <<early>> ELSE <<>>)
        \o (IF late + offset_at(tz, late) = naive THEN <<late>> ELSE <<>>)

\* Weekday::number_from_monday of a date (1970-01-01 was a Thursday)
number_from_monday(date) == ((date + 3) % 7) + 1

\* NaiveDate + Duration::days(n): None when the sum leaves chrono's range
add_days(date, n) == IF date + n > MAX_DATE \/ date + n < MIN_DATE THEN None ELSE Some(date + n)

month_lengths(year) ==
    <<31, IF is_leap_year(year) THEN 29 ELSE 28, 31, 30, 31, 30, 31, 31, 30, 31, 30, 31>>

\* NaiveDate::from_ymd_opt
from_ymd_opt(year, month, day) ==
    LET len(y) == IF is_leap_year(y) THEN 366 ELSE 365
        RECURSIVE jan1(_, _)
        jan1(y, d) == IF y = year THEN d
                      ELSE IF y < year THEN jan1(y + 1, d + len(y))
                      ELSE jan1(y - 1, d - len(y - 1))
        RECURSIVE before(_)
        before(m) == IF m = 1 THEN 0 ELSE before(m - 1) + month_lengths(year)[m - 1]
    IN  IF month \notin 1..12 THEN None
        ELSE IF day \notin 1..month_lengths(year)[month] THEN None
        ELSE add_days(jan1(1970, 0) + before(month) + (day - 1), 0)

\* NaiveDate::day
day_of_month(date) ==
    LET d == NaiveDate(date)
        RECURSIVE before(_)
        before(m) == IF m = 1 THEN 0 ELSE before(m - 1) + month_lengths(d.year)[m - 1]
    IN  d.ordinal - before(d.month)

\* repeat.rs:47-58  next_workday
next_workday(date, workday_only) ==
    LET RECURSIVE skip(_)
        skip(next) ==
            IF next = None THEN None
            ELSE IF number_from_monday(unwrap(next)) \in {6, 7} THEN skip(add_days(unwrap(next), 1))
            ELSE next
    IN  IF workday_only THEN skip(add_days(date, 1)) ELSE add_days(date, 1)

\* repeat.rs:60-73  next_weekday: the loop ends with a date or with the panic
\* of a date beyond MAX_DATE
next_weekday(date, days) ==
    LET RECURSIVE try(_)
        try(offset) ==
            LET found == add_days(date, offset)
            IN  IF found = None THEN None
                ELSE IF number_from_monday(unwrap(found)) \in Range(days) THEN found
                ELSE IF Range(days) \cap (1..7) = {} THEN None
                ELSE try(offset + 1)
    IN  IF days = <<>> THEN add_days(date, 7) ELSE try(1)

\* repeat.rs:101-103  (first_next - Duration::days(1)).day()
day_before(first_next) ==
    IF first_next = None THEN None
    ELSE IF add_days(unwrap(first_next), 0 - 1) = None THEN None
    ELSE Some(day_of_month(unwrap(first_next) - 1))

\* repeat.rs:98-104  last_day_of_month: from_ymd_opt(..).unwrap() panics
last_day_of_month(year, month) ==
    IF month = 12 THEN day_before(from_ymd_opt(year + 1, 1, 1))
    ELSE day_before(from_ymd_opt(year, month + 1, 1))

\* the clamped day of next_month_day / next_year_day
use_day(day, last_day) == IF max(1, day) < last_day THEN max(1, day) ELSE last_day

\* repeat.rs:83-86, 92-95  the date on the clamped day of a month
clamped_date(date, year, month, day, last_day) ==
    IF last_day = None THEN None
    ELSE IF from_ymd_opt(year, month, use_day(day, unwrap(last_day))) = None THEN Some(date)
    ELSE from_ymd_opt(year, month, use_day(day, unwrap(last_day)))

\* repeat.rs:75-87  next_month_day, for a date in month `month` of `year`
next_month_day_of(date, year, month, day) ==
    IF month + 1 > 12
    THEN clamped_date(date, year + 1, 1, day, last_day_of_month(year + 1, 1))
    ELSE clamped_date(date, year, month + 1, day, last_day_of_month(year, month + 1))

next_month_day(date, day) == next_month_day_of(date, NaiveDate(date).year, NaiveDate(date).month, day)

\* repeat.rs:89-96  next_year_day
next_year_day_of(date, year, month, day) ==
    clamped_date(date, year, month, day, last_day_of_month(year, month))

next_year_day(date, month, day) ==
    next_year_day_of(date, NaiveDate(date).year + 1,
                     IF month < 1 THEN 1 ELSE IF month > 12 THEN 12 ELSE month, day)

\* repeat.rs:25-31  next_date
next_date(base_date, repeat) ==
    CASE repeat.type = "none" -> Some(base_date)
      [] repeat.type = "daily" -> next_workday(base_date, repeat.workday_only)
      [] repeat.type = "weekly" -> next_weekday(base_date, repeat.days)
      [] repeat.type = "monthly" -> next_month_day(base_date, repeat.day)
      [] repeat.type = "yearly" -> next_year_day(base_date, repeat.month, repeat.day)

\* repeat.rs:36-44  next_local.timestamp() for the results of from_local_datetime
next_local(base, next_naive, found, shifted) ==
    IF found # <<>> THEN Some(found[1])
    ELSE IF date_naive(next_naive + SECS_PER_HOUR) > MAX_DATE THEN None
    ELSE IF shifted # <<>> THEN Some(shifted[1])
    ELSE Some(base)

\* repeat.rs:33-44  next_date.and_time(time) and the instant it is in `tz`
and_time(tz, base, date, time) ==
    IF date = None THEN None
    ELSE next_local(base, unwrap(date) * SECS_PER_DAY + time,
                    from_local_datetime(tz, unwrap(date) * SECS_PER_DAY + time),
                    from_local_datetime(tz, unwrap(date) * SECS_PER_DAY + time + SECS_PER_HOUR))

\* repeat.rs:24-44  from `base`
next_due_from(tz, base, local, repeat) ==
    and_time(tz, base, next_date(date_naive(local), repeat), local % SECS_PER_DAY)

\* repeat.rs:14-22  base, for a due_at that chrono can hold
next_due_from_base(tz, base, repeat) == next_due_from(tz, base, base + offset_at(tz, base), repeat)

\* repeat.rs:9-45  next_due_timestamp_in_timezone; `now` is Utc::now()
next_due_timestamp_in_timezone(tz, due_at, repeat, now) ==
    next_due_from_base(tz, IF timestamp_opt(due_at) = None THEN now ELSE due_at, repeat)

(***************************************************************************)
(* SpecComplete: complete_task and bulk_complete_tasks, one command after  *)
(* the other, on a store of a task "a" with any repeat rule and reminder   *)
(* state and a task "b" without a rule.  Local is taken to be UTC.  `arg`  *)
(* is the last command with the store it found, `ret` what it did.         *)
(***************************************************************************)
MaxCompletes == 2

\* repeat.rs:5-7  next_due_timestamp: chrono::Local and Utc::now() are `local` and `now`
next_due_timestamp(local, due_at, repeat, now) ==
    next_due_timestamp_in_timezone(local, due_at, repeat, now)

\* format!("{}-{}", completed.id, now.timestamp())
successor_id(id, now) == id \o "-" \o ToString(now)

\* commands.rs:616-623  the arithmetic of build_next_repeat_task overflows
build_overflows(completed, next_due) ==
    LET old_target == IF is_some(completed.reminder.remind_at)
                      THEN unwrap(completed.reminder.remind_at)
                      ELSE default_target(completed)
        offset == max(wrapping(completed.due_at - old_target), 0)
    IN  /\ completed.reminder.kind # "none"
        /\ \/ default_target_overflows(completed)
           \/ overflows(completed.due_at - old_target)
           \/ overflows(next_due - offset)

\* commands.rs:596-627  build_next_repeat_task
build_next_repeat_task_keeps_fired(completed, next_due, now) ==
    LET old_target == IF is_some(completed.reminder.remind_at)
                      THEN unwrap(completed.reminder.remind_at)
                      ELSE default_target(completed)
        offset == max(wrapping(completed.due_at - old_target), 0)
    IN  [completed EXCEPT
            !.id = successor_id(completed.id, now),
            !.completed = FALSE,
            !.completed_at = None,
            !.created_at = now,
            !.updated_at = now,
            !.sort_order = now * 1000,
            !.due_at = next_due,
            !.reminder.forced_dismissed = FALSE,
            !.reminder.snoozed_until = None,
            !.reminder.repeat_fired_count = 0,
            !.reminder.remind_at = IF completed.reminder.kind = "none" THEN None
                                   ELSE Some(wrapping(next_due - offset))]
build_next_repeat_task(completed, next_due, now) ==
    LET old_target == IF is_some(completed.reminder.remind_at)
                      THEN unwrap(completed.reminder.remind_at)
                      ELSE default_target(completed)
        offset == max(wrapping(completed.due_at - old_target), 0)
    IN  [completed EXCEPT
            !.id = successor_id(completed.id, now),
            !.completed = FALSE,
            !.completed_at = None,
            !.created_at = now,
            !.updated_at = now,
            !.sort_order = now * 1000,
            !.due_at = next_due,
            !.reminder.last_fired_at = None,
            !.reminder.forced_dismissed = FALSE,
            !.reminder.snoozed_until = None,
            !.reminder.repeat_fired_count = 0,
            !.reminder.remind_at = IF completed.reminder.kind = "none" THEN None
                                   ELSE Some(wrapping(next_due - offset))]

\* commands.rs:664, 698  state.add_task(next)
spawned(done, completed, next) ==
    [tasks |-> add_task(done, next), result |-> "spawned", completed |-> Some(completed),
     next |-> Some(next)]

\* commands.rs:654-655, 696-697  next_due_timestamp and build_next_repeat_task;
\* a panic leaves the task completed and adds nothing
spawn(done, completed, next_due, now) ==
    IF next_due = None \/ (overflow_checks /\ build_overflows(completed, unwrap(next_due)))
    THEN [tasks |-> done, result |-> "panic", completed |-> Some(completed), next |-> None]
    ELSE spawned(done, completed, build_next_repeat_task(completed, unwrap(next_due), now))

\* commands.rs:642-655, 692-697  after state.complete_task returned the clone
after_complete(done, completed, now) ==
    IF completed.repeat = RepeatNone
    THEN [tasks |-> done, result |-> "completed", completed |-> Some(completed), next |-> None]
    ELSE spawn(done, completed, next_due_timestamp(UTC, completed.due_at, completed.repeat, now), now)

\* commands.rs:634-640, 686-689  state.complete_task found the task at `i`
completed_at_index(ts, done, i, now) ==
    IF i = 0
    THEN [tasks |-> ts, result |-> "not_found", completed |-> None, next |-> None]
    ELSE after_complete(done, done[i], now)

\* commands.rs:634-664, 686-699  one task id of complete_task_impl or of the
\* loop of bulk_complete_tasks_impl: the store it leaves, the clone that
\* state.complete_task returned and the successor added
complete_and_spawn(ts, id, now) ==
    completed_at_index(ts, complete_task(ts, id, now), find_task(ts, id), now)

\* the ids of a command one after the other; a panic ends the command
RECURSIVE complete_all(_, _, _, _)
RECURSIVE complete_rest(_, _, _, _)
complete_rest(did, ids, now, results) ==
    IF did.result = "panic"
    THEN [tasks |-> did.tasks, results |-> Append(results, [did EXCEPT !.tasks = <<>>])]
    ELSE complete_all(did.tasks, ids, now, Append(results, [did EXCEPT !.tasks = <<>>]))
complete_all(ts, ids, now, results) ==
    IF ids = <<>> THEN [tasks |-> ts, results |-> results]
    ELSE complete_rest(complete_and_spawn(ts, Head(ids), now), Tail(ids), now, results)

CompleteDueAts == {30 * SECS_PER_DAY + SECS_PER_HOUR, MAX_DATETIME_TS + 1}

CompleteReminders ==
    {ReminderConfig(kind, remind_at, Some(7), kind = "forced", Some(5), 2) :
        kind \in ReminderKind, remind_at \in {None, Some(SECS_PER_DAY)}}

CompleteRepeats == {RepeatNone, Daily(TRUE), Monthly(31)}

InitComplete ==
    /\ overflow_checks \in BOOLEAN
    /\ arg = NoCall /\ ret = None
    /\ \E due_at \in CompleteDueAts, reminder \in CompleteReminders, repeat \in CompleteRepeats :
          tasks = << [Task("a", due_at, FALSE, FALSE, reminder) EXCEPT !.repeat = repeat],
                     Task("b", 5, FALSE, FALSE, ReminderConfig("normal", None, Some(9), FALSE, None, 0)) >>
    /\ settings = DefaultSettings /\ lock = "free"
    /\ clock = 0 /\ tick = TickIdle /\ cmd = CmdIdle /\ fired = <<>>
    /\ NoFiles

CompleteFrame == UNCHANGED <<overflow_checks, settings, lock, tick, fired, dir, files, wr, projects, disk>>

CompleteIds == {tasks[i].id : i \in DOMAIN tasks} \cup {"zz"}

\* Utc::now() moves on between two commands
CompleteClock ==
    /\ clock < MaxClock
    /\ clock' = clock + 1
    /\ UNCHANGED <<arg, ret, tasks, cmd>>
    /\ CompleteFrame

\* the store and the history after a command
completes(op, ids, did) ==
    /\ tasks' = did.tasks
    /\ arg' = [op |-> op, ids |-> ids, tasks |-> tasks, now |-> clock]
    /\ ret' = Some(did.results)
    /\ cmd' = [cmd EXCEPT !.n = @ + 1]
    /\ UNCHANGED clock
    /\ CompleteFrame

\* commands.rs:629-675  complete_task_impl
CompleteTask ==
    /\ cmd.n < MaxCompletes
    /\ \E task_id \in CompleteIds :
          completes("complete_task", <<task_id>>, complete_all(tasks, <<task_id>>, clock, <<>>))

\* commands.rs:677-713  bulk_complete_tasks_impl with two ids
BulkCompleteTasks ==
    /\ cmd.n < MaxCompletes
    /\ \E first_id \in CompleteIds : \E second_id \in {first_id, "b"} :
          completes("bulk_complete_tasks", <<first_id, second_id>>,
                    complete_all(tasks, <<first_id, second_id>>, clock, <<>>))

NextComplete == CompleteClock \/ CompleteTask \/ BulkCompleteTasks

SpecComplete == InitComplete /\ [][NextComplete]_vars

\* the entries of the store that are successors of the task `id`
successors_of(id) ==
    {i \in DOMAIN tasks : \E at \in 0..MaxClock : tasks[i].id = successor_id(id, at)}

\* C22: over any sequence of complete_task and bulk_complete_tasks commands
\* the store holds at most one successor of each task, and completing a task
\* without a repeat rule adds no task.
C22_OneSuccessor ==
    /\ \A i \in DOMAIN tasks : Cardinality(successors_of(tasks[i].id)) <= 1
    /\ (ret # None /\ \A k \in DOMAIN unwrap(ret) : unwrap(ret)[k].result # "spawned") =>
          Len(tasks) = Len(arg.tasks)

\* C38: after any sequence of commands no two tasks of the store share an
\* id; the id of a successor differs from the id of every task the store
\* already held.
C38_UniqueIds ==
    \A i \in DOMAIN tasks : \A j \in DOMAIN tasks : i # j => tasks[i].id # tasks[j].id

\* what C23 says of one successor `next` of the task `parent` that
\* state.complete_task returned
successor_of(parent, next) ==
    /\ \E i \in DOMAIN tasks : tasks[i] = next
    /\ ~ next.completed
    /\ next.reminder.last_fired_at = None
    /\ next.reminder.snoozed_until = None
    /\ next.reminder.forced_dismissed = FALSE
    /\ next.reminder.repeat_fired_count = 0
    /\ next.repeat = parent.repeat
    /\ next.reminder.kind = parent.reminder.kind
    /\ Some(next.due_at) = next_due_timestamp(UTC, parent.due_at, parent.repeat, arg.now)
    /\ find_task(tasks, parent.id) # 0
    /\ tasks[find_task(tasks, parent.id)].completed

\* the task a command completed first, as the store held it before
first_parent == arg.tasks[find_task(arg.tasks, arg.ids[1])]

\* C23: the successor added on completion is in the store, is not completed,
\* has no last_fired_at and no snoozed_until, forced_dismissed false and
\* repeat_fired_count 0, has the parent's repeat rule and reminder kind and
\* the due_at that next_due_timestamp gives for the parent's due_at and rule;
\* the parent is still in the store and completed.
C23_SuccessorFields ==
    ret # None =>
        /\ \A k \in DOMAIN unwrap(ret) :
              unwrap(ret)[k].result = "spawned" =>
                  successor_of(unwrap(unwrap(ret)[k].completed), unwrap(unwrap(ret)[k].next))
        /\ unwrap(ret)[1].result = "spawned" =>
              /\ unwrap(unwrap(ret)[1].completed).due_at = first_parent.due_at
              /\ unwrap(unwrap(ret)[1].completed).repeat = first_parent.repeat
              /\ unwrap(unwrap(ret)[1].completed).reminder.kind = first_parent.reminder.kind

C23_Witness ==
    /\ ret # None
    /\ arg.op = "complete_task"
    /\ unwrap(ret)[1].result = "spawned"
    /\ first_parent.reminder.kind = "forced"
    /\ first_parent.reminder.forced_dismissed
    /\ first_parent.repeat = Monthly(31)
    /\ unwrap(unwrap(ret)[1].next).due_at = (31 + 27) * SECS_PER_DAY + SECS_PER_HOUR

\* the task complete_task(id) leaves in the place of `task` at the time `now`
completed_at_time(task, now) ==
    [task EXCEPT !.completed = TRUE, !.completed_at = Some(now), !.updated_at = now,
                 !.reminder = [task.reminder EXCEPT !.snoozed_until = None,
                                                    !.last_fired_at = Some(now)]]

\* what C24 says of state.complete_task(id) on the store `before`, which
\* returned `got` and left `after` (before any successor was added)
completes_only(before, id, now, got, after) ==
    IF find_task(before, id) = 0
    THEN got = None /\ after = before
    ELSE /\ got = Some(completed_at_time(before[find_task(before, id)], now))
         /\ after = [before EXCEPT ![find_task(before, id)] = completed_at_time(@, now)]

\* C24: complete_task(id) on a known id sets completed, completed_at =
\* updated_at = now, no snoozed_until and last_fired_at = now on the task with
\* that id, changes no other task and no other field and returns the task;
\* on an unknown id it returns nothing and changes nothing.  No completed
\* task of the store is due for a tick, whatever the time and the settings.
C24_CompleteFrame ==
    /\ ret # None =>
          completes_only(arg.tasks, arg.ids[1], arg.now, unwrap(ret)[1].completed,
                         IF arg.op = "complete_task" THEN SubSeq(tasks, 1, Len(arg.tasks))
                         ELSE [arg.tasks EXCEPT ![find_task(arg.tasks, arg.ids[1])] =
                                                     unwrap(unwrap(ret)[1].completed)])
    /\ \A i \in DOMAIN tasks : \A now \in {clock, clock + SECS_PER_DAY, I64_MAX} :
          \A s \in {settings, Settings(0, 0), Settings(1, 5)} :
              tasks[i].completed => ~ is_due(tasks[i], s, now)

C24_Witness ==
    /\ ret # None
    /\ arg.op = "complete_task"
    /\ arg.ids = <<"b">>
    /\ is_due(arg.tasks[2], settings, clock + SECS_PER_DAY)
    /\ arg.tasks[2].reminder.snoozed_until = Some(9)
    /\ tasks[2].completed /\ tasks[2].reminder.snoozed_until = None
    /\ ~ tasks[1].completed
    /\ clock = 2

(***************************************************************************)
(* SpecSwap: swap_sort_order on the tasks and swap_project_sort_order on   *)
(* the projects of a store whose ids may repeat, as in a loaded file.      *)
(* `arg` is the last call with the list it found, `ret` what it returned.  *)
(***************************************************************************)
MaxSwaps == 2

\* state.rs:202-213, 233-244  the scan for the two indices: an entry with
\* the id first_id is never taken for second_id, and the scan goes on until
\* both indices are set
RECURSIVE swap_scan(_, _, _, _, _, _)
swap_scan(items, first_id, second_id, index, first, second) ==
    IF index > Len(items) \/ (first # 0 /\ second # 0) THEN <<first, second>>
    ELSE IF items[index].id = first_id THEN swap_scan(items, first_id, second_id, index + 1, index, second)
    ELSE IF items[index].id = second_id THEN swap_scan(items, first_id, second_id, index + 1, first, index)
    ELSE swap_scan(items, first_id, second_id, index + 1, first, second)

\* state.rs:214-223, 245-254  the exchange at the indices found
swap_at(items, found, updated_at) ==
    IF found[1] = 0 \/ found[2] = 0 THEN [items |-> items, ok |-> FALSE]
    ELSE [items |-> [items EXCEPT ![found[1]].sort_order = items[found[2]].sort_order,
                                  ![found[1]].updated_at = updated_at,
                                  ![found[2]].sort_order = items[found[1]].sort_order,
                                  ![found[2]].updated_at = updated_at],
          ok |-> TRUE]

\* state.rs:200-224  swap_sort_order; state.rs:226-255  swap_project_sort_order
swap_sort_order(items, first_id, second_id, updated_at) ==
    swap_at(items, swap_scan(items, first_id, second_id, 1, 0, 0), updated_at)

SwapTasks ==
    {[Task(id, 5, FALSE, FALSE, ReminderConfig("none", None, None, FALSE, None, 0))
        EXCEPT !.sort_order = sort_order] : id \in {"a", "b"}, sort_order \in {10, 20}}

SwapProjects == {Project(id, TRUE, sort_order, 1) : id \in {INBOX_PROJECT_ID, "work"}, sort_order \in {10, 20}}

InitSwap ==
    /\ overflow_checks = FALSE
    /\ arg = NoCall /\ ret = None
    /\ tasks \in {<<>>} \cup {<<t>> : t \in SwapTasks} \cup {<<t, u>> : t, u \in SwapTasks}
                       \cup {<<t, t, u>> : t, u \in SwapTasks}
    /\ \E ps \in {<<>>} \cup {<<p, q>> : p, q \in SwapProjects} :
          projects = new(<<>>, ps, 0).projects
    /\ settings = Settings(0, 0) /\ lock = "free"
    /\ clock = 0 /\ tick = TickIdle /\ cmd = CmdIdle /\ fired = <<>>
    /\ dir = <<>> /\ files = <<>> /\ wr = <<>>
    /\ NoBackups

SwapFrame == UNCHANGED <<overflow_checks, settings, lock, tick, fired, dir, files, wr, disk>>

\* the call, the list it found and its result
swapped(op, first_id, second_id, items, did) ==
    /\ arg' = [op |-> op, first_id |-> first_id, second_id |-> second_id, items |-> items,
               updated_at |-> clock + 1]
    /\ ret' = Some(did.ok)
    /\ tasks' = IF op = "swap_sort_order" THEN did.items ELSE tasks
    /\ projects' = IF op = "swap_sort_order" THEN projects ELSE did.items
    /\ clock' = clock + 1
    /\ cmd' = [cmd EXCEPT !.n = @ + 1]
    /\ SwapFrame

\* state.rs:200-224  swap_sort_order
SwapSortOrder ==
    /\ cmd.n < MaxSwaps
    /\ \E first_id \in {"a", "b", "zz"}, second_id \in {"a", "b", "zz"} :
          swapped("swap_sort_order", first_id, second_id, tasks,
                  swap_sort_order(tasks, first_id, second_id, clock + 1))

\* state.rs:226-255  swap_project_sort_order
SwapProjectOrder ==
    /\ cmd.n < MaxSwaps
    /\ \E first_id \in {INBOX_PROJECT_ID, "work", "zz"}, second_id \in {INBOX_PROJECT_ID, "work", "zz"} :
          swapped("swap_project_sort_order", first_id, second_id, projects,
                  swap_sort_order(projects, first_id, second_id, clock + 1))

NextSwap == SwapSortOrder \/ SwapProjectOrder

SpecSwap == InitSwap /\ [][NextSwap]_vars

\* what C25 says of a call on the list `before` that returned `ok` and left `after`
exchanged(before, first_id, second_id, updated_at, ok, after) ==
    /\ ok = ((\E i \in DOMAIN before : before[i].id = first_id)
             /\ (\E j \in DOMAIN before : before[j].id = second_id))
    /\ ok => \E i \in DOMAIN before, j \in DOMAIN before :
                /\ before[i].id = first_id /\ before[j].id = second_id
                /\ after = [before EXCEPT ![i].sort_order = before[j].sort_order,
                                          ![i].updated_at = updated_at,
                                          ![j].sort_order = before[i].sort_order,
                                          ![j].updated_at = updated_at]
    /\ ~ ok => after = before

\* C25: swap_sort_order(a, b, now) returns true exactly when the store has a
\* task with the id a and a task with the id b; it then exchanges their
\* sort_order, sets updated_at = now on both and changes nothing else, and
\* otherwise it changes nothing.  The same for swap_project_sort_order.
C25_SwapExchanges ==
    ret # None =>
        exchanged(arg.items, arg.first_id, arg.second_id, arg.updated_at, unwrap(ret),
                  IF arg.op = "swap_sort_order" THEN tasks ELSE projects)

(***************************************************************************)
(* SpecPoison: store operations after a thread panicked while holding the  *)
(* store mutex.  `lock` is "free", "panicking" (held by a thread that is   *)
(* about to unwind) or "poisoned" (free, with the poison flag of           *)
(* std::sync::Mutex, which is never cleared).  `arg` is the last call with *)
(* the lock and the tasks it found, `ret` its outcome.                     *)
(***************************************************************************)
MaxPoisonOps == 3

\* as lock_inner with `self.inner.lock().unwrap()`
lock_inner_unwrap(l) ==
    IF l = "free" THEN "guard" ELSE IF l = "poisoned" THEN "panic" ELSE "blocked"

\* state.rs:68-77  lock_inner: Ok(guard) => guard, Err(poisoned) => poisoned.into_inner()
lock_inner(l) ==
    IF l = "free" THEN "guard" ELSE IF l = "poisoned" THEN "guard" ELSE "blocked"

PoisonTask(id) == Task(id, 5, FALSE, FALSE, ReminderConfig("normal", Some(3), None, FALSE, None, 0))

InitPoison ==
    /\ overflow_checks = FALSE
    /\ arg = NoCall /\ ret = None
    /\ tasks \in {<<>>, <<PoisonTask("a")>>, <<PoisonTask("a"), PoisonTask("b")>>}
    /\ settings = DefaultSettings /\ lock = "free"
    /\ NoThreads
    /\ NoFiles

PoisonFrame == UNCHANGED <<overflow_checks, settings, tick, fired, dir, files, wr, projects, disk>>

\* a store operation `op` by `by`: it waits while the mutex is held, and
\* with the guard it leaves `after` and returns `value`
locked(by, op, id, guard, after, value) ==
    /\ guard # "blocked"
    /\ arg' = [op |-> op, by |-> by, id |-> id, lock |-> lock, tasks |-> tasks, at |-> clock + 1]
    /\ ret' = Some([outcome |-> IF guard = "guard" THEN "ok" ELSE "panic",
                    value |-> IF guard = "guard" THEN value ELSE <<>>])
    /\ tasks' = IF guard = "guard" THEN after ELSE tasks
    /\ clock' = clock + 1
    /\ cmd' = [cmd EXCEPT !.n = @ + 1]
    /\ UNCHANGED lock
    /\ PoisonFrame

\* state.rs:132-135  tasks, from a command
GetTasks ==
    /\ cmd.n < MaxPoisonOps
    /\ locked("cmd", "tasks", "", lock_inner(lock), tasks, tasks)

\* state.rs:142-145  add_task, from a command
PoisonAddTask ==
    /\ cmd.n < MaxPoisonOps
    /\ \E id \in {"c", "d"} :
        locked("cmd", "add_task", id, lock_inner(lock), add_task(tasks, PoisonTask(id)), <<>>)

\* state.rs:283-297  mark_reminder_fired, from the tick
PoisonMarkFired ==
    /\ cmd.n < MaxPoisonOps
    /\ \E id \in {"a", "zz"} :
        locked("tick", "mark_reminder_fired", id, lock_inner(lock),
               mark_reminder_fired(tasks, id, clock + 1), <<>>)

\* a thread takes the mutex, as every store operation does
PanicLock ==
    /\ cmd.n < MaxPoisonOps
    /\ lock_inner(lock) = "guard"
    /\ lock' = "panicking"
    /\ arg' = NoCall /\ ret' = None
    /\ cmd' = [cmd EXCEPT !.n = @ + 1]
    /\ UNCHANGED <<tasks, clock>>
    /\ PoisonFrame

\* ... and panics with the guard, before or after it pushed a task: the
\* unwinding drops the guard, which releases the mutex and poisons it
PanicUnwind ==
    /\ lock = "panicking"
    /\ \E pushed \in BOOLEAN :
          tasks' = IF pushed THEN add_task(tasks, PoisonTask("p")) ELSE tasks
    /\ lock' = "poisoned"
    /\ UNCHANGED <<arg, ret, clock, cmd>>
    /\ PoisonFrame

NextPoison == GetTasks \/ PoisonAddTask \/ PoisonMarkFired \/ PanicLock \/ PanicUnwind

SpecPoison == InitPoison /\ [][NextPoison]_vars

\* the call `call` ended normally with `result`, leaving `after`, and worked
\* on the tasks it found
completes_normally(call, result, after) ==
    /\ result.outcome = "ok"
    /\ call.op = "tasks" => result.value = call.tasks /\ after = call.tasks
    /\ call.op = "add_task" => after = Append(call.tasks, PoisonTask(call.id))
    /\ call.op = "mark_reminder_fired" =>
          /\ Len(after) = Len(call.tasks)
          /\ \A i \in DOMAIN after :
                IF call.tasks[i].id = call.id /\ (\A j \in 1..(i - 1) : call.tasks[j].id # call.id)
                THEN /\ after[i].reminder.last_fired_at = Some(call.at)
                     /\ after[i].id = call.id
                ELSE after[i] = call.tasks[i]

\* C26: a store operation, getter or mutator, from the tick or from a
\* command, that finds the mutex poisoned by a panic takes the lock and
\* completes normally on the data the panicking thread left; the poison is
\* not propagated.
C26_PoisonRecovered ==
    (ret # None /\ arg.op # "none" /\ arg.lock = "poisoned") =>
        completes_normally(arg, unwrap(ret), tasks)

C26_Witness ==
    /\ ret # None /\ arg.op = "mark_reminder_fired" /\ arg.by = "tick" /\ arg.lock = "poisoned"
    /\ \E i \in DOMAIN arg.tasks : arg.tasks[i].id = "p"
    /\ \E i \in DOMAIN tasks : tasks[i].id = "a" /\ tasks[i].reminder.last_fired_at # None

(***************************************************************************)
(* SpecRepeat: next_due_timestamp on drawn inputs.  chrono::Local is the   *)
(* zone of the machine: UTC, a zone whose clocks skip one hour on the day  *)
(* GapDay (01:00 -> 02:00), or one whose clocks skip two hours that day    *)
(* (01:00 -> 03:00, as Antarctica/Troll does each spring).  `arg` is the   *)
(* call, `ret` the value returned or the panic.                            *)
(***************************************************************************)
\* 1970-04-13, a Monday
GapDay == 31 + 28 + 31 + 12
\* the day the clocks go back
BackDay == GapDay + 14 * 7
\* 01:30 and 12:00
RepeatTimes == {SECS_PER_HOUR + 30 * 60, 12 * SECS_PER_HOUR}

LocalZones ==
    {UTC,
     Tz(SECS_PER_HOUR, GapDay * SECS_PER_DAY, SECS_PER_HOUR, BackDay * SECS_PER_DAY),
     Tz(0, GapDay * SECS_PER_DAY + SECS_PER_HOUR, 2 * SECS_PER_HOUR, BackDay * SECS_PER_DAY)}

\* 1969-04-10, 1970-01-31, 1970-03-17, the Friday to the Sunday before GapDay,
\* 1970-12-07, 1972-01-31, 1972-02-29 and the last two days chrono can hold
RepeatDates == {0 - 266, 30, 75, GapDay - 3, GapDay - 2, GapDay - 1, 340, 760, 789, MAX_DATE - 1, MAX_DATE}

RepeatRules ==
    {RepeatNone, Daily(TRUE), Daily(FALSE),
     Weekly(<<>>), Weekly(<<1>>), Weekly(<<3, 5>>), Weekly(<<7, 1>>), Weekly(<<8>>), Weekly(<<0, 2>>),
     Monthly(0), Monthly(13), Monthly(31),
     Yearly(0, 31), Yearly(4, 13), Yearly(2, 29), Yearly(13, 40)}

RepeatNow == 75 * SECS_PER_DAY + 12 * SECS_PER_HOUR

\* the instant that is `time` on `date` by the standard time of `tz`
at_local(tz, date, time) == date * SECS_PER_DAY + time - tz.std

\* a due_at that chrono cannot hold
OutOfRange == {MAX_DATETIME_TS + 1, I64_MAX, 0 - I64_MAX}

InitRepeat ==
    /\ overflow_checks = FALSE
    /\ \E tz \in LocalZones, repeat \in RepeatRules :
          \E due_at \in {at_local(tz, date, time) : date \in RepeatDates, time \in RepeatTimes} \cup OutOfRange :
             arg = [op |-> "next_due_timestamp", tz |-> tz, due_at |-> due_at, repeat |-> repeat,
                    now |-> RepeatNow]
    /\ ret = None
    /\ NoStore
    /\ NoThreads
    /\ NoFiles

\* the value returned, or the panic when there is none
returned_or_panic(next) == [outcome |-> IF next = None THEN "panic" ELSE "value", value |-> next]

\* repeat.rs:5-7  next_due_timestamp
NextDueTimestamp ==
    /\ ret = None
    /\ ret' = Some(returned_or_panic(next_due_timestamp(arg.tz, arg.due_at, arg.repeat, arg.now)))
    /\ UNCHANGED <<overflow_checks, arg, tasks, settings, lock, clock, tick, cmd, fired, dir, files, wr, projects, disk>>

NextRepeat == NextDueTimestamp

SpecRepeat == InitRepeat /\ [][NextRepeat]_vars

\* DateTime::naive_local of an instant in `tz`
naive_local(tz, utc) == utc + offset_at(tz, utc)

local_date(tz, utc) == date_naive(naive_local(tz, utc))

local_time(tz, utc) == naive_local(tz, utc) % SECS_PER_DAY

\* the call returned an instant on `date` at due_at's time of day
returns_on(call, result, date) ==
    /\ result.outcome = "value"
    /\ local_date(call.tz, unwrap(result.value)) = date
    /\ local_time(call.tz, unwrap(result.value)) = local_time(call.tz, call.due_at)

\* the first date after `date` whose weekday number is in `numbers`
first_after(date, numbers) ==
    CHOOSE d \in (date + 1)..(date + 7) :
        /\ number_from_monday(d) \in numbers
        /\ \A e \in (date + 1)..(d - 1) : number_from_monday(e) \notin numbers

\* the call has a due_at that chrono can hold and a rule of type `type`
called_with(type) ==
    /\ ret # None /\ arg.op = "next_due_timestamp"
    /\ timestamp_opt(arg.due_at) # None
    /\ arg.repeat.type = type

\* C27: for every representable due_at, Daily{workday_only = true} gives an
\* instant whose local date is the first date after due_at's date that is
\* neither Saturday nor Sunday, workday_only = false gives the next calendar
\* day, and in both cases the local time of day is that of due_at.
C27_DailyNextDay ==
    called_with("daily") =>
        returns_on(arg, unwrap(ret),
                   first_after(local_date(arg.tz, arg.due_at),
                               IF arg.repeat.workday_only THEN 1..5 ELSE 1..7))

\* the number of days of a month
days_in_month(year, month) == month_lengths(year)[month]

\* the instant `utc` is, in `tz`, in month `month` of `year`, on the day
\* min(day, days of that month)
in_month_on(tz, utc, year, month, day) ==
    /\ NaiveDate(local_date(tz, utc)).year = year
    /\ NaiveDate(local_date(tz, utc)).month = month
    /\ day_of_month(local_date(tz, utc)) =
          IF day < days_in_month(year, month) THEN day ELSE days_in_month(year, month)

\* the month after month `month` of `year`
month_after(year, month) == IF month = 12 THEN <<year + 1, 1>> ELSE <<year, month + 1>>

\* what C28 says of the result `utc` for a due_at on local date `base`
monthly_or_yearly(tz, base, repeat, utc) ==
    IF repeat.type = "monthly"
    THEN in_month_on(tz, utc, month_after(base.year, base.month)[1],
                     month_after(base.year, base.month)[2], repeat.day)
    ELSE in_month_on(tz, utc, base.year + 1,
                     IF repeat.month < 1 THEN 1 ELSE IF repeat.month > 12 THEN 12 ELSE repeat.month,
                     repeat.day)

\* C28: for Monthly{day} and Yearly{month, day} the result lies in the month
\* after due_at's month (December rolls into January of the next year), or
\* in the given month, clamped to 1..12, of the next year, and its day of
\* month is min(day, days of that month).
C28_MonthlyYearlyClamp ==
    (called_with("monthly") \/ called_with("yearly")) =>
        /\ unwrap(ret).outcome = "value"
        /\ monthly_or_yearly(arg.tz, NaiveDate(local_date(arg.tz, arg.due_at)), arg.repeat,
                             unwrap(unwrap(ret).value))

\* C29: for Weekly{days} with a non-empty set the result is on the earliest
\* date after due_at's date whose weekday number (Monday = 1 .. Sunday = 7)
\* is in the set, 1 to 7 days later and never the same date; for an empty
\* set it is on the date 7 days later.
C29_WeeklyNext ==
    called_with("weekly") =>
        /\ unwrap(ret).outcome = "value"
        /\ IF arg.repeat.days = <<>>
           THEN local_date(arg.tz, unwrap(unwrap(ret).value)) = local_date(arg.tz, arg.due_at) + 7
           ELSE /\ local_date(arg.tz, unwrap(unwrap(ret).value)) - local_date(arg.tz, arg.due_at) \in 1..7
                /\ number_from_monday(local_date(arg.tz, unwrap(unwrap(ret).value))) \in Range(arg.repeat.days)
                /\ \A d \in (local_date(arg.tz, arg.due_at) + 1)..(local_date(arg.tz, unwrap(unwrap(ret).value)) - 1) :
                      number_from_monday(d) \notin Range(arg.repeat.days)

\* C30: next_due_timestamp returns a value, without a panic and without an
\* endless loop, for every due_at and every rule, also for Weekly days with
\* no number in 1..7 and Monthly / Yearly days or months of 0 or beyond the
\* valid range; for a due_at that is no date the value is computed from the
\* current time.
C30_AlwaysReturns ==
    (ret # None /\ arg.op = "next_due_timestamp") =>
        /\ unwrap(ret).outcome = "value"
        /\ timestamp_opt(arg.due_at) = None =>
              unwrap(ret).value = next_due_timestamp(arg.tz, arg.now, arg.repeat, arg.now)

\* C40: for every rule other than None and every due_at that chrono can
\* hold, next_due_timestamp(due_at, rule) is greater than due_at, so the
\* due dates of the successors of a repeating task increase.
C40_StrictlyLater ==
    (ret # None /\ arg.op = "next_due_timestamp" /\ timestamp_opt(arg.due_at) # None
       /\ arg.repeat.type # "none") =>
        /\ unwrap(ret).outcome = "value"
        /\ unwrap(unwrap(ret).value) > arg.due_at

(***************************************************************************)
(* SpecRearm: the reminders of one task over time.  A turn of the          *)
(* scheduler (collect_due_tasks, then mark_reminder_fired for what it      *)
(* returned) and a command are each taken as a whole here; how their steps *)
(* interleave is the subject of Spec.  The scheduler ticks at most once a  *)
(* second.  `fired` lists the turns since the last command, `arg` is the   *)
(* last command, `ret` the time of the last turn that returned the task.   *)
(***************************************************************************)
MaxRearmClock == 3
MaxRearmCmds == 2

RearmInitTasks ==
    {Task("a", 601, FALSE, FALSE, ReminderConfig("normal", remind_at, None, FALSE, None, 0)) :
        remind_at \in {None, Some(2)}}
    \cup {Task("a", 1, FALSE, FALSE, ReminderConfig("forced", remind_at, None, FALSE, None, 0)) :
        remind_at \in {None, Some(2)}}

InitRearm ==
    /\ overflow_checks = FALSE
    /\ arg = NoCall /\ ret = None
    /\ \E task \in RearmInitTasks : tasks = <<task>>
    /\ settings \in {Settings(interval, max_times) : interval \in {0, 1}, max_times \in {0, 1}}
    /\ lock = "free"
    /\ NoThreads
    /\ NoFiles

RearmFrame == UNCHANGED <<overflow_checks, settings, lock, dir, files, wr, projects, disk>>

\* a second passes
RearmAdvance ==
    /\ clock < MaxRearmClock
    /\ clock' = clock + 1
    /\ UNCHANGED <<arg, ret, tasks, tick, cmd, fired>>
    /\ RearmFrame

RECURSIVE mark_all(_, _, _)
\* scheduler.rs:45-47  for task in &due_tasks { state.mark_reminder_fired(task, now) }
mark_all(ts, due, now) ==
    IF due = <<>> THEN ts
    ELSE mark_all(mark_reminder_fired(ts, due[1].id, now), Tail(due), now)

\* the turn at `now` that found `ts` and collected `due`
turn(ts, due, now) ==
    /\ tasks' = mark_all(ts, due, now)
    /\ fired' = Append(fired, [now |-> now, before |-> ts[1], returned |-> due # <<>>])
    /\ ret' = IF due # <<>> THEN Some(now) ELSE ret
    /\ tick' = [tick EXCEPT !.no = @ + 1, !.now = now]

\* scheduler.rs:30-47  one turn of the loop of start_scheduler
RearmTick ==
    /\ tick.no = 0 \/ tick.now < clock
    /\ turn(tasks, collect_due_tasks(tasks, settings, clock).due, clock)
    /\ UNCHANGED <<arg, clock, cmd>>
    /\ RearmFrame

\* the command `op` at the time `clock`, which leaves the task list `after`
commanded(op, until, after) ==
    /\ cmd.n < MaxRearmCmds
    /\ arg' = [op |-> op, at |-> clock, until |-> until, before |-> tasks[1],
               after |-> after[1], fired_at |-> ret]
    /\ tasks' = after
    /\ fired' = <<>>
    /\ cmd' = [cmd EXCEPT !.n = @ + 1]
    /\ UNCHANGED <<ret, clock, tick>>
    /\ RearmFrame

\* commands.rs:820-846  snooze_task_impl
snooze_task(ts, id, until, now) ==
    IF find_task(ts, id) = 0 THEN ts
    ELSE update_task(ts, [ts[find_task(ts, id)] EXCEPT !.reminder.snoozed_until = Some(until),
                                                     !.reminder.last_fired_at = Some(now)])

\* commands.rs:848-873  dismiss_forced_impl
dismiss_forced(ts, id, now) ==
    IF find_task(ts, id) = 0 THEN ts
    ELSE update_task(ts, [ts[find_task(ts, id)] EXCEPT !.reminder.forced_dismissed = TRUE,
                                                     !.reminder.last_fired_at = Some(now)])

RearmSnoozeTask ==
    \E until \in {clock - 1, clock + 1, clock + 2} :
        /\ until >= 0
        /\ commanded("snooze_task", until, snooze_task(tasks, "a", until, clock))

RearmDismissForced ==
    /\ tasks[1].reminder.kind = "forced"
    /\ commanded("dismiss_forced", 0, dismiss_forced(tasks, "a", clock))

\* commands.rs:503-537  update_task_impl with the stored task and a later
\* due_at or another remind_at
RearmUpdateTask ==
    \E edited \in {[tasks[1] EXCEPT !.due_at = @ + 2],
                   [tasks[1] EXCEPT !.reminder.remind_at = Some(clock + 1)]} :
        commanded("update_task", 0, update_task(tasks, edited))

\* commands.rs:634-640  complete_task_impl (RepeatRule::None)
RearmCompleteTask ==
    /\ ~ tasks[1].completed
    /\ commanded("complete_task", 0, complete_task(tasks, "a", clock))

NextRearm ==
    \/ RearmAdvance \/ RearmTick
    \/ RearmSnoozeTask \/ RearmDismissForced \/ RearmUpdateTask \/ RearmCompleteTask

SpecRearm == InitRearm /\ [][NextRearm]_vars

\* the target time as the specification defines it: snoozed_until if set,
\* else remind_at if set, else due_at - 600 for Normal and due_at for Forced
stated_target(task) ==
    IF task.reminder.snoozed_until # None THEN task.reminder.snoozed_until[1]
    ELSE IF task.reminder.remind_at # None THEN task.reminder.remind_at[1]
    ELSE IF task.reminder.kind = "normal" THEN task.due_at - 600
    ELSE task.due_at

\* single-shot mode: Forced, or no repeat interval in the settings
one_shot(task) == task.reminder.kind # "normal" \/ settings.reminder_repeat_interval_sec <= 0

\* the task can have a reminder at all
can_remind(task) ==
    /\ ~ task.completed
    /\ task.reminder.kind # "none"
    /\ ~ (task.reminder.kind = "forced" /\ task.reminder.forced_dismissed)

\* the first turn since the last command whose time is `at` or later
first_turn_from(k, at) == fired[k].now >= at /\ \A j \in 1..(k - 1) : fired[j].now < at

\* a turn returned the task, and no later turn that found it with the same
\* target time returned it again
fires_once ==
    \A k \in DOMAIN fired : \A m \in DOMAIN fired :
        (k < m /\ fired[k].returned /\ one_shot(fired[k].before)
         /\ stated_target(fired[m].before) = stated_target(fired[k].before))
        => ~ fired[m].returned

\* the last command, an edit or a snooze, gave the task that had fired at F
\* a target time later than F
rearmed ==
    /\ arg.op \in {"update_task", "snooze_task"}
    /\ arg.fired_at # None
    /\ one_shot(arg.after)
    /\ stated_target(arg.after) # stated_target(arg.before)
    /\ stated_target(arg.after) > arg.fired_at[1]

\* the first turn at or after the new target time returned the task
due_again == \A k \in DOMAIN fired : first_turn_from(k, stated_target(arg.after)) => fired[k].returned

\* C32 as stated: in single-shot mode a task that fired at F is not returned
\* by later ticks while its target time stays the same, and changing the
\* target time to a value greater than F makes it due again at the first
\* tick at or after the new target time.
C32_Rearms == fires_once /\ (rearmed => due_again)

\* C32 amended: ... makes it due again at the first tick at or after the
\* new target time, provided that the task is still uncompleted and, if
\* Forced, not dismissed, and that a snooze is to a time later than the time
\* of the snooze_task call.
C32_RearmsAmended ==
    /\ fires_once
    /\ (rearmed /\ can_remind(arg.after) /\ (arg.op = "snooze_task" => arg.until > arg.at))
       => due_again

\* C32 witness: a Forced task fired, was then snoozed forward, and the first
\* turn at the snoozed time returned it again, while the turns before did not.
C32_Witness ==
    /\ rearmed /\ arg.op = "snooze_task" /\ arg.until > arg.at
    /\ arg.after.reminder.kind = "forced"
    /\ Len(fired) >= 2
    /\ ~ fired[1].returned /\ fired[1].now < arg.until
    /\ fired[Len(fired)].returned /\ fired[Len(fired)].now >= arg.until

\* the last command was snooze_task to a time later than the time of the
\* call, on an uncompleted task with a Normal or an undismissed Forced reminder
snoozed_forward == arg.op = "snooze_task" /\ arg.until > arg.at /\ can_remind(arg.before)

\* no turn before the time `until` returned the task
held_until(until) == \A k \in DOMAIN fired : fired[k].now < until => ~ fired[k].returned

\* the repeating reminder of `task` has been fired reminder_repeat_max_times times
limit_reached(task) ==
    /\ ~ one_shot(task)
    /\ settings.reminder_repeat_max_times > 0
    /\ task.reminder.repeat_fired_count >= settings.reminder_repeat_max_times

\* C33 as stated: after snooze_task(id, U) with U later than the current
\* time, on an uncompleted task with a Normal or undismissed Forced reminder,
\* no tick with now < U returns the task and the first tick with now >= U
\* returns it, in single-shot and in repeating mode.
C33_SnoozeOverrides ==
    snoozed_forward =>
        /\ held_until(arg.until)
        /\ \A k \in DOMAIN fired : first_turn_from(k, arg.until) => fired[k].returned

\* C33 amended: ... and the first tick with now >= U returns it unless, in
\* repeating mode, its repeat_fired_count has reached
\* reminder_repeat_max_times > 0.
C33_SnoozeOverridesAmended ==
    snoozed_forward =>
        /\ held_until(arg.until)
        /\ \A k \in DOMAIN fired :
              (first_turn_from(k, arg.until) /\ ~ limit_reached(fired[k].before)) => fired[k].returned

\* C33 witness: a repeating Normal reminder that had fired was snoozed; the
\* turn before the snoozed time left it alone and the turn at that time
\* returned it.
C33_Witness ==
    /\ snoozed_forward /\ ~ one_shot(arg.after) /\ arg.fired_at # None
    /\ Len(fired) = 2
    /\ fired[1].now < arg.until /\ ~ fired[1].returned
    /\ fired[2].now >= arg.until /\ fired[2].returned

\* the turn found `task` in single-shot mode, or not fired yet, or with a
\* snooze later than its last firing
waits_for_target(task) ==
    \/ one_shot(task)
    \/ task.reminder.last_fired_at = None
    \/ task.reminder.snoozed_until # None
       /\ task.reminder.snoozed_until[1] > task.reminder.last_fired_at[1]

MaxStamps == 3

StampSteps == {"none", "ensure_dirs", "create_backup", "write_atomic", "save_settings"}

InitStamp ==
    /\ overflow_checks = FALSE
    /\ arg = NoCall /\ ret = None
    /\ tasks = <<>> /\ lock = "free"
    /\ projects = new(<<>>, <<>>, 0).projects
    /\ \E schedule \in {"daily", "none"}, last \in {None, Some(0)} :
          /\ settings = [Settings(0, 0) EXCEPT !.backup_schedule = schedule, !.last_backup_at = last]
          /\ files = <<last>>
    /\ NoThreads
    /\ dir = <<>>
    /\ data \in {<<>>, <<0>>}
    /\ backups = <<>> /\ copy_keeps_mtime = FALSE
    /\ wr = BackupIdle

\* storage.rs:170-180  write_with_backup: the copy is taken when the file exists
backup_copied(with_backup, exists, failing) == with_backup /\ exists /\ failing # "create_backup"

\* storage.rs:152-157, 170-180  save_tasks: create_backup(&path)? and write_atomic
tasks_saved(with_backup, exists, failing) ==
    /\ ~ (with_backup /\ exists /\ failing = "create_backup")
    /\ failing # "write_atomic"

\* the step of persist's own course that `failing` stands for
persist_step(failing) == IF failing \in {"create_backup", "write_atomic"} THEN "save_tasks" ELSE failing

\* commands.rs:64-126  persist at `now`, with data.json there or not: what
\* it leaves in the store and in the files
persist_files(s, now, exists, failing, p) ==
    [now |-> now, failing |-> failing, exists |-> exists,
     with_backup |-> p.with_backup,
     copied |-> p.with_backup /\ backup_copied(p.with_backup, exists, failing),
     saved |-> failing # "ensure_dirs" /\ tasks_saved(p.with_backup, exists, failing),
     settings_saved |-> /\ failing \notin {"ensure_dirs", "save_settings"}
                        /\ tasks_saved(p.with_backup, exists, failing),
     last |-> s.last_backup_at, stored |-> p.settings.last_backup_at, on_disk |-> files[1]]

StampFrame == UNCHANGED <<overflow_checks, arg, lock, clock, tick, fired, dir, wr, projects, copy_keeps_mtime>>

\* the store and the files after the call `did`
stamped(did) ==
    /\ ret' = Some(did)
    /\ settings' = [settings EXCEPT !.last_backup_at = did.stored]
    /\ backups' = IF did.copied THEN Append(backups, data[1]) ELSE backups
    /\ data' = IF did.saved THEN <<did.now>> ELSE data
    /\ files' = IF did.settings_saved THEN <<did.stored>> ELSE files

\* commands.rs:467-501  create_task_impl and the commands that end as it
\* does: the store is changed, persist runs, its error is returned
StampCommand ==
    /\ cmd.n < MaxStamps
    /\ cmd' = [cmd EXCEPT !.n = @ + 1]
    /\ \E failing \in StampSteps :
          /\ tasks' = Append(tasks, normalize_tasks(<<StoredTask("t", "inbox", 0, clock)>>, projects)[1])
          /\ stamped(persist_files(settings, clock, data # <<>>, failing,
                                   persist(settings, clock, persist_step(failing))))
    /\ StampFrame

NextStamp == PassTime \/ StampCommand

SpecStamp == InitStamp /\ [][NextStamp]_vars

\* C39: persist advances settings.last_backup_at only when that persist
\* created a backup file: when data.json does not exist yet, or the backup
\* copy or the save fails, last_backup_at keeps its previous value, in
\* memory and in settings.json.
C39_StampedOnlyWithBackup ==
    ret # None =>
        /\ (settings.last_backup_at # ret[1].last \/ files[1] # ret[1].on_disk) => ret[1].copied
        /\ (~ ret[1].exists \/ ~ ret[1].saved) =>
              settings.last_backup_at = ret[1].last /\ files[1] = ret[1].on_disk

(***************************************************************************)
(* SpecSnapshot: scheduler.rs, the turn of the loop with                   *)
(* persist_reminder_state, and commands.rs, complete_task with persist, on *)
(* the same store and the same data.json.  state.tasks_file() clones the   *)
(* store under the lock; save_tasks runs after the lock is released and    *)
(* replaces data.json by the rename of write_atomic.  `fired` is the       *)
(* history of the clones in the order they were taken.  The backup         *)
(* schedule is None, so that persist leaves the settings alone.  A turn    *)
(* that collects and marks is taken here in one step.                      *)
(***************************************************************************)
MaxSnapshotClock == 2
MaxSnapshotCmds == 2

SnapshotIdle == [pc |-> "idle", n |-> 0, now |-> 0, file |-> None, taken |-> 0, result |-> "none"]

InitSnapshot ==
    /\ overflow_checks = FALSE
    /\ arg = NoCall /\ ret = None
    /\ tasks = SpecTasks
    /\ settings \in {[Settings(i, 0) EXCEPT !.backup_schedule = "none"] : i \in {0, 1}}
    /\ lock = "free" /\ clock = 0
    /\ tick = SnapshotIdle /\ cmd = SnapshotIdle
    /\ fired = <<>>
    /\ dir = <<>> /\ wr = <<>> /\ projects = <<>> /\ NoBackups
    /\ files = [tasks |-> SpecTasks, taken |-> 0]

SnapshotAdvance ==
    /\ clock < MaxSnapshotClock
    /\ clock' = clock + 1
    /\ UNCHANGED <<overflow_checks, arg, ret, tasks, settings, lock, tick, cmd,
                   fired, dir, files, wr, projects, disk>>

\* the thread goes on to `pc`, or returns with `result`
goes_on(th, pc) == [th EXCEPT !.pc = pc]
comes_back(th, result) == [th EXCEPT !.pc = "idle", !.result = result, !.file = None]

\* state.tasks_file(): the clone of the store, numbered in the order taken
tasks_file(th, ts, taken) == [th EXCEPT !.pc = "save_tasks", !.file = Some(ts), !.taken = taken]

\* write_atomic renamed the temp file onto data.json
renamed(th) == [tasks |-> unwrap(th.file), taken |-> th.taken]

\* scheduler.rs:30-45  interval.tick().await; now; collect_due_tasks; when
\* tasks are due, mark_reminder_fired for each and persist_reminder_state
SnapshotTick ==
    /\ tick.pc = "idle"
    /\ tick.n = 0 \/ tick.now < clock
    /\ ~collect_due_tasks(tasks, settings, clock).panicked
    /\ LET due == collect_due_tasks(tasks, settings, clock).due
       IN  /\ tasks' = mark_all(tasks, due, clock)
           /\ tick' = [tick EXCEPT !.n = @ + 1, !.now = clock,
                                   !.pc = IF due = <<>> THEN "idle" ELSE "ensure_dirs"]
    /\ UNCHANGED <<overflow_checks, arg, ret, settings, lock, clock, cmd,
                   fired, dir, files, wr, projects, disk>>

\* scheduler.rs:69-72  storage.ensure_dirs(), which may fail
SnapshotTickEnsureDirs ==
    /\ tick.pc = "ensure_dirs"
    /\ \E ok \in BOOLEAN :
         tick' = IF ok THEN goes_on(tick, "tasks_file") ELSE comes_back(tick, "err")
    /\ UNCHANGED <<overflow_checks, arg, ret, tasks, settings, lock, clock, cmd,
                   fired, dir, files, wr, projects, disk>>

\* scheduler.rs:73  state.tasks_file()
SnapshotTickTasksFile ==
    /\ tick.pc = "tasks_file"
    /\ fired' = Append(fired, "tick")
    /\ tick' = tasks_file(tick, tasks, Len(fired) + 1)
    /\ UNCHANGED <<overflow_checks, arg, ret, tasks, settings, lock, clock, cmd,
                   dir, files, wr, projects, disk>>

\* scheduler.rs:73-76  storage.save_tasks(&file, false), which may fail
SnapshotTickSaveTasks ==
    /\ tick.pc = "save_tasks"
    /\ \E ok \in BOOLEAN :
         /\ files' = IF ok THEN renamed(tick) ELSE files
         /\ tick' = comes_back(tick, IF ok THEN "ok" ELSE "err")
    /\ UNCHANGED <<overflow_checks, arg, ret, tasks, settings, lock, clock, cmd,
                   fired, dir, wr, projects, disk>>

\* commands.rs:629-652  complete_task_impl: state.complete_task(&task_id),
\* then persist
SnapshotCompleteTask(id) ==
    /\ cmd.pc = "idle"
    /\ cmd.n < MaxSnapshotCmds
    /\ find_task(tasks, id) # 0
    /\ tasks' = complete_task(tasks, id, clock)
    /\ cmd' = [cmd EXCEPT !.n = @ + 1, !.now = clock, !.pc = "ensure_dirs"]
    /\ UNCHANGED <<overflow_checks, arg, ret, settings, lock, clock, tick,
                   fired, dir, files, wr, projects, disk>>

\* commands.rs:69-78  persist: storage.ensure_dirs(), which may fail; with
\* the schedule None should_auto_backup is false
SnapshotCmdEnsureDirs ==
    /\ cmd.pc = "ensure_dirs"
    /\ ~should_auto_backup(settings, clock)
    /\ \E ok \in BOOLEAN :
         cmd' = IF ok THEN goes_on(cmd, "tasks_file") ELSE comes_back(cmd, "err")
    /\ UNCHANGED <<overflow_checks, arg, ret, tasks, settings, lock, clock, tick,
                   fired, dir, files, wr, projects, disk>>

\* commands.rs:89  state.tasks_file()
SnapshotCmdTasksFile ==
    /\ cmd.pc = "tasks_file"
    /\ fired' = Append(fired, "cmd")
    /\ cmd' = tasks_file(cmd, tasks, Len(fired) + 1)
    /\ UNCHANGED <<overflow_checks, arg, ret, tasks, settings, lock, clock, tick,
                   dir, files, wr, projects, disk>>

\* commands.rs:90-100  storage.save_tasks(&tasks_file, false), which may fail
SnapshotCmdSaveTasks ==
    /\ cmd.pc = "save_tasks"
    /\ \E ok \in BOOLEAN :
         /\ files' = IF ok THEN renamed(cmd) ELSE files
         /\ cmd' = IF ok THEN goes_on(cmd, "save_settings") ELSE comes_back(cmd, "err")
    /\ UNCHANGED <<overflow_checks, arg, ret, tasks, settings, lock, clock, tick,
                   fired, dir, wr, projects, disk>>

\* commands.rs:102-126  storage.save_settings(..), which may fail; Ok(())
SnapshotCmdSaveSettings ==
    /\ cmd.pc = "save_settings"
    /\ \E ok \in BOOLEAN : cmd' = comes_back(cmd, IF ok THEN "ok" ELSE "err")
    /\ UNCHANGED <<overflow_checks, arg, ret, tasks, settings, lock, clock, tick,
                   fired, dir, files, wr, projects, disk>>

NextSnapshot ==
    \/ SnapshotAdvance
    \/ SnapshotTick \/ SnapshotTickEnsureDirs \/ SnapshotTickTasksFile
    \/ SnapshotTickSaveTasks
    \/ \E id \in TaskIds : SnapshotCompleteTask(id)
    \/ SnapshotCmdEnsureDirs \/ SnapshotCmdTasksFile \/ SnapshotCmdSaveTasks
    \/ SnapshotCmdSaveSettings

SpecSnapshot == InitSnapshot /\ [][NextSnapshot]_vars

\* the last persist of the tick and the last persist of a command have both
\* returned Ok, and neither thread is in a turn or a command
both_returned_ok ==
    /\ tick.pc = "idle" /\ tick.result = "ok"
    /\ cmd.pc = "idle" /\ cmd.result = "ok"

\* C37: when persist_reminder_state of the tick and persist of a command
\* run concurrently, data.json holds the task list of the store once both
\* have returned successfully, and no save replaces the data.json written
\* from a clone by one written from a clone taken earlier.
C37_LatestSnapshotOnDisk ==
    /\ [](both_returned_ok => files.tasks = tasks)
    /\ [][files'.taken >= files.taken]_vars

====
